---- MODULE Spec2Model ----
(***************************************************************************)
(* Matching-and-scoring pipeline of the job/resume matcher: the resilience *)
(* primitives (app/core/error_handler.py), the embedding service           *)
(* (app/services/embedding_service.py, cache_service.py) and the matching  *)
(* orchestrator (app/services/matching_engine.py).                         *)
(*                                                                         *)
(* Each subsystem has its own specification over the shared variables:     *)
(*   SpecCB     one CircuitBreaker guarding concurrent async callers       *)
(*   SpecEmb    EmbeddingService.generate_embedding / batch_generate_      *)
(*              embeddings over the Redis cache, behind the embedding      *)
(*              circuit breaker                                            *)
(***************************************************************************)
EXTENDS Integers, Sequences, FiniteSets, TLC

(***************************************************************************)
(* Bounds of the model.                                                    *)
(***************************************************************************)
NumCallers == 3        \* concurrent coroutines calling one guarded function
MaxThreshold == 2      \* failure_threshold is drawn from 1..MaxThreshold
MaxTimeout == 2        \* recovery_timeout is drawn from 1..MaxTimeout (ticks)
MaxTime == 4           \* the clock time.time() runs over 0..MaxTime
MaxFailures == 3       \* cap on failure_count
MaxArrivals == 5       \* cap on the number of calls entering the wrapper

MaxBatch == 2          \* longest list given to batch_generate_embeddings
EmbMaxTime == 60       \* the clock of SpecEmb stops advancing at EmbMaxTime
EmbMaxFailures == 4    \* failure_count of the embedding breaker stays <= EmbMaxFailures
ExplMaxFailures == 6   \* failure_count of the explanation breaker stays <= ExplMaxFailures
MaxRetriesArg == 3     \* largest max_retries passed to retry_with_backoff
MaxExplBatch == 6      \* longest request list given to generate_batch_explanations
MaxSkills == 3         \* longest skill list passed to compare_skills
MaxDim == 2            \* longest vector passed to calculate_cosine_similarity
NumResumes == 11       \* processed resumes in the resumes table
MaxListLen == 2        \* longest resume_ids list drawn freely for a request
\* EmbeddingService.embedding_dimension: the length of every vector.  The
\* service sets 384 (embedding_service.py:28) and uses it only as a length;
\* the model works with shorter vectors, still longer than the 4 features
\* the fallback computes, so that padding happens.
embedding_dimension == 6

None == -1             \* Python None for last_failure_time (times are >= 0)

Callers == 1..NumCallers

VARIABLES
    \* ---- CircuitBreaker fields (error_handler.py:34-40)
    failure_threshold, recovery_timeout, failure_count, last_failure_time,
    state,
    \* ---- environment of the breaker
    now,            \* value of time.time()
    cpc,            \* cpc[c]: "idle" or "inflight" (suspended in await func())
    trial,          \* trial[c]: c's admission moved the breaker OPEN -> HALF_OPEN
    cres,           \* cres[c]: how c's last call ended
    consec,         \* expected failures completed since the last success
    streak,         \* the consecutive expected failures the last recorded failure completed
    arrivals, rejections, invocations,  \* call counters of the wrapper
    \* ---- embedding service
    emb_cache,      \* Redis "embedding:<sha256>" entries: key -> [vec, expire_seconds]
    emb_origin,     \* key -> the vector handed back by the call that wrote the entry
    emb_last,       \* the embedding call that ended in the step to this state
    ecall,          \* ecall[c]: one embedding call in flight, its locals and position
    \* ---- matching engine
    run,            \* run[r]: one match_resumes_to_job call, its locals and position
    db,             \* the match_results table: the rows in insertion order
    mcache,         \* Redis "match_results:<job>:<hash>" entries: key -> results
    pair,           \* the job and the resume, the calls for them in flight and the call that ended in the step to this state
    \* ---- explanation service
    expl_cache,     \* Redis "explanation:<md5>" entries: key -> explanation
    expl_last,      \* the generate_explanation call that ended in the step to this state
    xbatch,         \* one generate_batch_explanations call, its locals and position
    xcall,          \* xcall[c]: one explanation-service call in flight, its locals and position
    \* ---- functions without state of their own
    pure_last       \* the call that led to this state: arguments and outcome

cbVars == <<failure_threshold, recovery_timeout, failure_count,
            last_failure_time, state, now, cpc, trial, cres, consec, streak,
            arrivals, rejections, invocations>>

embVars == <<emb_cache, emb_origin, emb_last, ecall>>

matchVars == <<run, db, mcache, pair>>

explVars == <<expl_cache, expl_last, xbatch, xcall>>

pureVars == <<pure_last>>

vars == <<cbVars, embVars, matchVars, explVars, pureVars>>

\* a call that wrote nothing to the cache; no call made yet
NoWrite == [key |-> <<>>, vec |-> <<>>, expire_seconds |-> 0]

NoCall == [op |-> "none", text |-> <<>>, env |-> <<>>, outcome |-> "none",
           exc |-> "none", ret |-> <<>>, model_calls |-> 0, path |-> "",
           write |-> NoWrite, stored |-> FALSE, read_failed |-> FALSE,
           lookup |-> <<>>, variant |-> 0]

\* the generate_embedding and batch_generate_embeddings calls the model
\* follows at a time
EmbCalls == {1, 2}

\* a call that has not been made: its position and its locals.  kinds is
\* the outcomes of its model invocations so far, lookup the list
\* batch_generate_embeddings has after its cache reads
IdleEmbCall ==
    [pc |-> "idle", op |-> "none", text |-> <<>>, kinds |-> <<>>,
     vec |-> <<>>, expire_hours |-> 0, path |-> "", read_failed |-> FALSE,
     variant |-> 0, k |-> 0, processed_texts |-> <<>>, embeddings |-> <<>>,
     lookup |-> <<>>, texts_to_process |-> <<>>,
     indices_to_process |-> <<>>, batch_embeddings |-> <<>>]

\* the embedding service before any call: empty cache
EmbIdle ==
    /\ emb_cache = <<>>
    /\ emb_origin = <<>>
    /\ emb_last = NoCall
    /\ ecall = [c \in EmbCalls |-> IdleEmbCall]

\* the match_resumes_to_job calls the model follows
Runs == {1, 2}

\* placeholders for a request, a ComprehensiveMatch and a task result that
\* are not there yet
NoRequest == [job_id |-> 0, resume_ids |-> <<>>, min_score_threshold |-> 0,
              max_results |-> None]

NoMatch == [job_id |-> 0, resume_id |-> 0, overall_score |-> 0,
            similarity_score |-> 0, skill_match_percentage |-> 0,
            matched_skills |-> <<>>, missing_skills |-> <<>>,
            additional_skills |-> <<>>, explanation |-> "", confidence |-> 0]

\* a call that has not been made; pool names the requests its caller may send.
\* exc is the exception the call ended with: _store_match_results (line 484)
\* and match_resumes_to_job (lines 436-438) catch every Exception, so no
\* action sets it
IdleRun(pool) ==
    [pc |-> "idle", pool |-> pool, request |-> NoRequest, resumes |-> <<>>,
     task |-> <<>>, result |-> <<>>, matches |-> <<>>, k |-> 0,
     existing |-> 0, put |-> "none", overlap |-> FALSE, ret |-> <<>>,
     exc |-> "none", path |-> "", cached_results |-> <<>>,
     read_ok |-> FALSE]

\* the calculate_comprehensive_match and embedding calls the model follows
\* at a time
PairCalls == {1, 2}

\* no call for the pair has ended in the step to this state
NoPairCall == [op |-> "none", resume_id |-> 0, before |-> <<>>,
               events |-> <<>>, result |-> <<>>, generated |-> <<>>,
               read |-> <<>>]

\* a row that has not been read
NoRow == [found |-> FALSE, embedding |-> "unread"]

\* a call that has not been made: its position and its locals.  job and
\* resume are the objects of the two rows that the call's session holds,
\* entity the one whose embedding it is generating, events the steps it has
\* made, generated how its embedding requests ended, value the embedding it
\* is storing, rowcount the rows its uncommitted statement has met, session
\* whether its session still takes statements
IdlePairCall ==
    [pc |-> "idle", op |-> "none", resume_id |-> 0, before |-> <<>>,
     job |-> NoRow, resume |-> NoRow, entity |-> "none", events |-> <<>>,
     generated |-> <<>>, value |-> "none", rowcount |-> 0,
     session |-> "open"]

\* the job and the resume exist and carry a vector, and nobody is calling
EmbeddedPair == [job_found |-> TRUE, resume_found |-> TRUE,
                 job_embedding |-> "vec", resume_embedding |-> "vec",
                 resume_id |-> 1]
PairIdle == pair = [store |-> EmbeddedPair, call |-> NoPairCall,
                    calls |-> [c \in PairCalls |-> IdlePairCall]]

\* the matching engine before any call: no row, no cache entry
MatchIdle ==
    /\ run = [r \in Runs |-> IdleRun("none")]
    /\ db = <<>>
    /\ mcache = <<>>
    /\ PairIdle

\* the explanation service before any call
NoExplain == [op |-> "none", input |-> <<>>, env |-> <<>>, outcome |-> "none",
              exc |-> "none", ret |-> <<>>, llm_calls |-> 0, path |-> ""]

\* no generate_batch_explanations call made yet
NoBatchRun == [pc |-> "idle", explanations |-> <<>>, max_concurrent |-> 0,
               client |-> FALSE, redis |-> FALSE,
               task |-> <<>>, results |-> <<>>, successful_count |-> 0,
               failed_count |-> 0, peak |-> 0, exc |-> "none",
               response |-> <<>>]

\* the generate_explanation and clear_cache calls the model follows at a
\* time; task i of a batch is call i
ExplCalls == 1..MaxExplBatch

\* a call that has not been made: its position and its locals.  kinds is
\* the outcomes of its LLM requests so far, task the batch task that made
\* it (0: none), keys what clear_cache found
IdleExplCall ==
    [pc |-> "idle", op |-> "none", input |-> <<>>, client |-> FALSE,
     redis |-> FALSE, kinds |-> <<>>, explanation |-> <<>>, path |-> "",
     task |-> 0, keys |-> {}]

ExplIdle ==
    /\ expl_cache = <<>>
    /\ expl_last = NoExplain
    /\ xbatch = NoBatchRun
    /\ xcall = [c \in ExplCalls |-> IdleExplCall]

\* no function called yet
NoPure == [op |-> "none", args |-> <<>>, out |-> <<>>]

PureIdle == pure_last = NoPure

(***************************************************************************)
(* CircuitBreaker (error_handler.py:25-83)                                 *)
(***************************************************************************)
\* CircuitBreaker.__init__ for one choice of the constructor arguments.
CircuitBreakerInit(N, T) ==
    /\ failure_threshold = N
    /\ recovery_timeout = T
    /\ failure_count = 0
    /\ last_failure_time = None
    /\ state = "CLOSED"

\* _should_attempt_reset: enough time has passed since the last failure.
\* (mutant: strict comparison)
ShouldAttemptReset_Strict ==
    IF last_failure_time = None THEN TRUE
    ELSE now - last_failure_time > recovery_timeout

ShouldAttemptReset ==
    IF last_failure_time = None THEN TRUE
    ELSE now - last_failure_time >= recovery_timeout

\* _on_success: reset the count and close.
OnSuccess ==
    /\ failure_count' = 0
    /\ state' = "CLOSED"
    /\ UNCHANGED last_failure_time

\* the state _on_failure leaves for a new failure count
\* (mutant: opens one failure late)
StateAfterFailure_Late(count, cur) ==
    IF count > failure_threshold THEN "OPEN" ELSE cur

StateAfterFailure(count, cur) ==
    IF count >= failure_threshold THEN "OPEN" ELSE cur

\* _on_failure: count, stamp the time, open at the threshold.
OnFailure ==
    /\ failure_count' = failure_count + 1
    /\ last_failure_time' = now
    /\ state' = StateAfterFailure(failure_count + 1, state)

\* wrapper, lines 45-53, when the call is turned away: the breaker is OPEN
\* and the recovery window has not elapsed; ExternalServiceError is raised
\* and func is not invoked.
CallRejected(c) ==
    /\ UNCHANGED <<embVars, matchVars, explVars, pureVars>>
    /\ cpc[c] = "idle"
    /\ arrivals < MaxArrivals
    /\ state = "OPEN" /\ ~ShouldAttemptReset
    /\ arrivals' = arrivals + 1
    /\ rejections' = rejections + 1
    /\ cres' = [cres EXCEPT ![c] = "rejected"]
    /\ UNCHANGED <<failure_threshold, recovery_timeout, failure_count,
                   last_failure_time, state, now, cpc, trial, consec, streak,
                   invocations>>

\* wrapper, lines 45-56, when the call goes through to func: the breaker is
\* not OPEN, or it is OPEN and the window elapsed (it becomes HALF_OPEN).
\* The caller is then suspended in "await func(...)".
CallAdmitted(c) ==
    /\ UNCHANGED <<embVars, matchVars, explVars, pureVars>>
    /\ cpc[c] = "idle"
    /\ arrivals < MaxArrivals
    /\ state = "OPEN" => ShouldAttemptReset
    /\ state' = IF state = "OPEN" THEN "HALF_OPEN" ELSE state
    /\ trial' = [trial EXCEPT ![c] = (state = "OPEN")]
    /\ cpc' = [cpc EXCEPT ![c] = "inflight"]
    /\ cres' = [cres EXCEPT ![c] = "running"]
    /\ arrivals' = arrivals + 1
    /\ invocations' = invocations + 1
    /\ UNCHANGED <<failure_threshold, recovery_timeout, failure_count,
                   last_failure_time, now, consec, streak, rejections>>

\* wrapper, lines 56-58: func returned.
CallReturns(c) ==
    /\ UNCHANGED <<embVars, matchVars, explVars, pureVars>>
    /\ cpc[c] = "inflight"
    /\ OnSuccess
    /\ consec' = 0
    /\ UNCHANGED streak
    /\ cpc' = [cpc EXCEPT ![c] = "idle"]
    /\ cres' = [cres EXCEPT ![c] = "returned"]
    /\ UNCHANGED <<failure_threshold, recovery_timeout, now, trial,
                   arrivals, rejections, invocations>>

\* wrapper, lines 59-61: func raised an instance of expected_exception.
CallRaisesExpected(c) ==
    /\ UNCHANGED <<embVars, matchVars, explVars, pureVars>>
    /\ cpc[c] = "inflight"
    /\ failure_count < MaxFailures
    /\ OnFailure
    /\ consec' = consec + 1
    /\ streak' = consec + 1
    /\ cpc' = [cpc EXCEPT ![c] = "idle"]
    /\ cres' = [cres EXCEPT ![c] = "raised_expected"]
    /\ UNCHANGED <<failure_threshold, recovery_timeout, now, trial,
                   arrivals, rejections, invocations>>

\* wrapper, lines 55-61: func raised something that is not an instance of
\* expected_exception; no handler runs and the exception propagates.
CallRaisesOther(c) ==
    /\ UNCHANGED <<embVars, matchVars, explVars, pureVars>>
    /\ cpc[c] = "inflight"
    /\ cpc' = [cpc EXCEPT ![c] = "idle"]
    /\ cres' = [cres EXCEPT ![c] = "raised_other"]
    /\ UNCHANGED <<failure_threshold, recovery_timeout, failure_count,
                   last_failure_time, state, now, trial, consec, streak,
                   arrivals, rejections, invocations>>

\* time.time() advances.
Tick ==
    /\ UNCHANGED <<embVars, matchVars, explVars, pureVars>>
    /\ now < MaxTime
    /\ now' = now + 1
    /\ UNCHANGED <<failure_threshold, recovery_timeout, failure_count,
                   last_failure_time, state, cpc, trial, cres, consec, streak,
                   arrivals, rejections, invocations>>

InitCB ==
    /\ \E N \in 1..MaxThreshold, T \in 1..MaxTimeout : CircuitBreakerInit(N, T)
    /\ now = 0
    /\ cpc = [c \in Callers |-> "idle"]
    /\ trial = [c \in Callers |-> FALSE]
    /\ cres = [c \in Callers |-> "none"]
    /\ consec = 0
    /\ streak = 0
    /\ arrivals = 0
    /\ rejections = 0
    /\ invocations = 0
    /\ EmbIdle
    /\ ExplIdle
    /\ PureIdle
    /\ MatchIdle

NextCB ==
    \/ \E c \in Callers : CallRejected(c)
    \/ \E c \in Callers : CallAdmitted(c)
    \/ \E c \in Callers : CallReturns(c)
    \/ \E c \in Callers : CallRaisesExpected(c)
    \/ \E c \in Callers : CallRaisesOther(c)
    \/ Tick

SpecCB == InitCB /\ [][NextCB]_vars

(***************************************************************************)
(* Texts.  A text is a sequence of one-character strings.                  *)
(***************************************************************************)
Whitespace == {" ", "\t", "\n"}

\* str.lower() on the characters the model uses
LowerMap == [c \in {"W", "A", "B"} |->
                CASE c = "W" -> "w" [] c = "A" -> "a" [] c = "B" -> "b"]

LowerChar(c) == IF c \in DOMAIN LowerMap THEN LowerMap[c] ELSE c

Lower(text) == [i \in 1..Len(text) |-> LowerChar(text[i])]

\* str.split(): the maximal runs of non-whitespace characters, in order
RECURSIVE SplitFrom(_, _, _)
SplitFrom(text, i, word) ==
    IF i > Len(text)
    THEN (IF word = <<>> THEN <<>> ELSE <<word>>)
    ELSE IF text[i] \in Whitespace
         THEN (IF word = <<>> THEN <<>> ELSE <<word>>)
                  \o SplitFrom(text, i + 1, <<>>)
         ELSE SplitFrom(text, i + 1, Append(word, text[i]))

Split(text) == SplitFrom(text, 1, <<>>)

\* ' '.join(words)
RECURSIVE JoinSpace(_)
JoinSpace(words) ==
    IF words = <<>> THEN <<>>
    ELSE IF Len(words) = 1 THEN words[1]
    ELSE words[1] \o <<" ">> \o JoinSpace(Tail(words))

\* "needle in hay" for strings
Contains(hay, needle) ==
    \E i \in 1..(Len(hay) - Len(needle) + 1) :
        SubSeq(hay, i, i + Len(needle) - 1) = needle

Min(a, b) == IF a <= b THEN a ELSE b

(***************************************************************************)
(* EmbeddingService (embedding_service.py) and its cache                   *)
(* (cache_service.py:127-150).  A float is an integer count of             *)
(* 1/FeatureUnit, the common denominator of the fallback features.         *)
(***************************************************************************)
max_length == 8000
FeatureUnit == 91000            \* lcm(1000, 500, 26, 7)
DefaultExpireHours == 24        \* cache_embedding(expire_hours=24)
FallbackExpireHours == 1        \* cache_embedding(..., expire_hours=1)
EmbMaxRetries == 2              \* retry_with_backoff(max_retries=2)
EmbFailureThreshold == 3        \* embedding_circuit_breaker
EmbRecoveryTimeout == 60

\* [0.0] * n
ZeroVector(n) == [i \in 1..n |-> 0]

\* _preprocess_text (mutant: truncates only, keeps the whitespace)
PreprocessText_NoCollapse(text) ==
    IF Split(text) = <<>> THEN <<>>
    ELSE IF Len(text) > max_length THEN SubSeq(text, 1, max_length) ELSE text

\* _preprocess_text: strip, collapse whitespace runs, truncate to max_length
PreprocessText(text) ==
    IF text = <<>> \/ Split(text) = <<>> THEN <<>>
    ELSE LET joined == JoinSpace(Split(text))
         IN  IF Len(joined) > max_length
             THEN SubSeq(joined, 1, max_length)
             ELSE joined

\* the keywords of GracefulDegradation.embedding_fallback
Keywords == {
    <<"e","x","p","e","r","i","e","n","c","e">>,
    <<"s","k","i","l","l">>,
    <<"e","d","u","c","a","t","i","o","n">>,
    <<"p","r","o","j","e","c","t">>,
    <<"w","o","r","k">>,
    <<"m","a","n","a","g","e">>,
    <<"d","e","v","e","l","o","p">> }

\* GracefulDegradation.embedding_fallback (mutant: no padding)
EmbeddingFallback_Unpadded(text, dimension) ==
    LET features == <<Min(Len(text), 1000) * (FeatureUnit \div 1000),
                      Min(Len(Split(text)), 500) * (FeatureUnit \div 500),
                      Min(Cardinality({Lower(text)[i] : i \in 1..Len(text)}), 26)
                          * (FeatureUnit \div 26),
                      Cardinality({k \in Keywords : Contains(Lower(text), k)})
                          * (FeatureUnit \div 7)>>
    IN  SubSeq(features, 1, Min(Len(features), dimension))

\* GracefulDegradation.embedding_fallback: four text features, zero-padded
\* to the dimension and cut to it
EmbeddingFallback(text, dimension) ==
    LET features == <<Min(Len(text), 1000) * (FeatureUnit \div 1000),
                      Min(Len(Split(text)), 500) * (FeatureUnit \div 500),
                      Min(Cardinality({Lower(text)[i] : i \in 1..Len(text)}), 26)
                          * (FeatureUnit \div 26),
                      Cardinality({k \in Keywords : Contains(Lower(text), k)})
                          * (FeatureUnit \div 7)>>
        padded == [i \in 1..(IF Len(features) < dimension THEN dimension
                             ELSE Len(features)) |->
                      IF i <= Len(features) THEN features[i] ELSE 0]
    IN  SubSeq(padded, 1, Min(Len(padded), dimension))

\* the texts callers pass in
RawTexts == {
    <<" ", "\t">>,
    <<"W", "o", "r", "k">>,
    <<" ", "W", "o", "r", "k", " ">>,
    <<"a", " ", " ", "b">> }

\* the texts batches are built from
BatchTexts == {
    <<>>,
    <<"W", "o", "r", "k">>,
    <<"a", "\n", "b">> }

\* what one call of the pretrained model can do: return, or raise an error
\* whose message handle_ai_service_error classifies (an authentication
\* message is classified as a timeout message is)
ModelOutcomes == {"ok", "rate_limit", "timeout", "other"}
ModelVariants == {1, 2}

\* SentenceTransformer.encode on one text: some vector of the dimension;
\* the variant stands for whatever else the output depends on
Encode(text, variant) ==
    [i \in 1..embedding_dimension |->
        IF i = 1 THEN variant * FeatureUnit
        ELSE IF i = 2 THEN Len(text) * FeatureUnit ELSE 1]

\* ErrorHandler.handle_ai_service_error: the exception type it returns
HandleAiServiceError(kind, service_name) ==
    IF kind = "rate_limit" THEN "RateLimitError"
    ELSE IF kind = "timeout" THEN "ExternalServiceError"
    ELSE IF kind = "auth" THEN "ExternalServiceError"
    ELSE IF service_name = "embedding" THEN "EmbeddingGenerationError"
    ELSE IF service_name = "explanation" THEN "ExplanationServiceError"
    ELSE "ExternalServiceError"

\* _generate_embedding_with_fallback: one attempt, the exception it raises
\* ("none" when the model returned)
AttemptException(kind) ==
    IF kind = "ok" THEN "none" ELSE HandleAiServiceError(kind, "embedding")

\* the exceptions generate_embedding asks retry_with_backoff to retry
EmbRetryExceptions == {"EmbeddingGenerationError", "RuntimeError", "OSError"}
\* expected_exception of embedding_circuit_breaker
EmbExpectedExceptions == {"EmbeddingGenerationError", "ExternalServiceError"}

\* RetryHandler.retry_with_backoff from attempt number "attempt" on, where
\* excs[k] is the exception of the k-th invocation of func ("none": it
\* returned).  Gives the number of invocations made and the exception that
\* leaves the handler ("none": the result is returned).
\* (mutant: the loop gives up one attempt early)
RECURSIVE RetryWithBackoff_OneShort(_, _, _, _)
RetryWithBackoff_OneShort(excs, attempt, max_retries, exceptions) ==
    LET e == excs[attempt + 1]
    IN  IF e = "none" THEN [calls |-> attempt + 1, exc |-> "none"]
        ELSE IF e \notin exceptions THEN [calls |-> attempt + 1, exc |-> e]
        ELSE IF attempt + 1 >= max_retries
        THEN [calls |-> attempt + 1, exc |-> e]
        ELSE RetryWithBackoff_OneShort(excs, attempt + 1, max_retries,
                                       exceptions)

RECURSIVE RetryWithBackoff(_, _, _, _)
RetryWithBackoff(excs, attempt, max_retries, exceptions) ==
    LET e == excs[attempt + 1]
    IN  IF e = "none" THEN [calls |-> attempt + 1, exc |-> "none"]
        ELSE IF e \notin exceptions THEN [calls |-> attempt + 1, exc |-> e]
        ELSE IF attempt = max_retries THEN [calls |-> attempt + 1, exc |-> e]
        ELSE RetryWithBackoff(excs, attempt + 1, max_retries, exceptions)

\* CacheService.get_cached_embedding: the stored vector, or <<>> (None) when
\* there is no entry or the Redis read failed
GetCachedEmbedding(cache, text, read_ok) ==
    IF read_ok /\ text \in DOMAIN cache THEN cache[text].vec ELSE <<>>

\* CacheService.cache_embedding: the entry set_cache stores
CacheEntry(embedding, expire_hours) ==
    [vec |-> embedding, expire_seconds |-> expire_hours * 3600]

\* the function cache with the writes of one call applied (set_cache swallows
\* a Redis failure and stores nothing)
ApplyWrite(cache, write, write_ok) ==
    IF write = NoWrite \/ ~write_ok THEN cache
    ELSE [k \in DOMAIN cache \cup {write.key} |->
            IF k = write.key
            THEN [vec |-> write.vec, expire_seconds |-> write.expire_seconds]
            ELSE cache[k]]

\* the key generate_embedding looks up and stores under
\* (mutant: the raw text)
EmbCacheKey_Raw(text) == text

EmbCacheKey(text) == PreprocessText(text)

\* the record of a call that has ended, as emb_last keeps it: env is the
\* outcomes of its model invocations
Ended(call, outcome, exc, ret, write, stored) ==
    [op |-> call.op, text |-> call.text, env |-> call.kinds,
     outcome |-> outcome, exc |-> exc, ret |-> ret,
     model_calls |-> Len(call.kinds), path |-> call.path, write |-> write,
     stored |-> stored, read_failed |-> call.read_failed,
     lookup |-> call.lookup, variant |-> call.variant]

\* the origin map after a call that wrote (or did not write) an entry
OriginAfter(origin, cache2, write, write_ok, ret) ==
    [k \in DOMAIN cache2 |->
        IF write # NoWrite /\ write_ok /\ k = write.key THEN ret ELSE origin[k]]

\* the breaker wrapper around generate_embedding when the breaker turns the
\* call away (error_handler.py:45-53): ExternalServiceError, body not run
GenerateEmbeddingRejected(text) ==
    /\ state = "OPEN" /\ ~ShouldAttemptReset
    /\ emb_last' = [NoCall EXCEPT !.op = "single", !.text = text,
                                  !.outcome = "raised",
                                  !.exc = "ExternalServiceError",
                                  !.path = "rejected"]
    /\ UNCHANGED <<cbVars, emb_cache, emb_origin, ecall, matchVars, explVars,
                   pureVars>>

\* @embedding_circuit_breaker generate_embedding, admitted, up to its first
\* suspension (error_handler.py:45-56, embedding_service.py:72-84): a service
\* that was not initialised raises and an empty text returns the zero
\* vector, both at once, with the wrapper recording the outcome; any other
\* call is suspended in the cache read
GenerateEmbedding(c, text, loaded) ==
    /\ ecall[c].pc = "idle"
    /\ state = "OPEN" => ShouldAttemptReset
    /\ LET entered == IF state = "OPEN" THEN "HALF_OPEN" ELSE state
           call == [IdleEmbCall EXCEPT !.op = "single", !.text = text]
           exc == "EmbeddingGenerationError"
       IN  IF ~loaded
           THEN /\ emb_last' = Ended([call EXCEPT !.path = "uninitialised"],
                                     "raised", exc, <<>>, NoWrite, FALSE)
                /\ UNCHANGED ecall
                /\ IF exc \in EmbExpectedExceptions
                   THEN /\ failure_count < EmbMaxFailures
                        /\ failure_count' = failure_count + 1
                        /\ last_failure_time' = now
                        /\ state' = StateAfterFailure(failure_count + 1,
                                                      entered)
                        /\ consec' = consec + 1
                        /\ streak' = consec + 1
                   ELSE /\ state' = entered
                        /\ UNCHANGED <<failure_count, last_failure_time,
                                       consec, streak>>
           ELSE IF PreprocessText(text) = <<>>
           THEN /\ emb_last' = Ended([call EXCEPT !.path = "empty"],
                                     "returned", "none",
                                     ZeroVector(embedding_dimension),
                                     NoWrite, FALSE)
                /\ UNCHANGED ecall
                /\ OnSuccess
                /\ consec' = 0
                /\ UNCHANGED streak
           ELSE /\ emb_last' = NoCall
                /\ ecall' = [ecall EXCEPT ![c] = [call EXCEPT !.pc = "read"]]
                /\ state' = entered
                /\ UNCHANGED <<failure_count, last_failure_time, consec, streak>>
    /\ UNCHANGED <<failure_threshold, recovery_timeout, now, cpc, trial, cres,
                   arrivals, rejections, invocations, emb_cache, emb_origin,
                   matchVars, explVars, pureVars>>

\* generate_embedding, lines 86-89: the cache read completes; a hit is
\* returned and recorded by the wrapper as a success, a miss leaves the call
\* suspended in the model invocation (run_in_executor, line 131)
GenerateEmbeddingRead(c, read_ok) ==
    /\ ecall[c].pc = "read"
    /\ LET call == ecall[c]
           processed_text == EmbCacheKey(call.text)
           cached_embedding ==
               GetCachedEmbedding(emb_cache, processed_text, read_ok)
       IN  IF cached_embedding # <<>>
           THEN /\ emb_last' = Ended([call EXCEPT !.path = "cache"],
                                     "returned", "none", cached_embedding,
                                     NoWrite, FALSE)
                /\ ecall' = [ecall EXCEPT ![c] = IdleEmbCall]
                /\ OnSuccess
                /\ consec' = 0
                /\ UNCHANGED streak
           ELSE /\ emb_last' = NoCall
                /\ ecall' = [ecall EXCEPT ![c] =
                                [call EXCEPT !.pc = "model",
                                             !.read_failed = ~read_ok]]
                /\ UNCHANGED <<failure_count, last_failure_time, state,
                               consec, streak>>
    /\ UNCHANGED <<failure_threshold, recovery_timeout, now, cpc, trial, cres,
                   arrivals, rejections, invocations, emb_cache, emb_origin,
                   matchVars, explVars, pureVars>>

\* generate_embedding, lines 95-121: one invocation of the model ends.
\* retry_with_backoff either sleeps and invokes it again, or hands back the
\* vector, or lets the exception out and the fallback vector is computed;
\* the call is then suspended in the cache write
GenerateEmbeddingAttempt(c, kind, variant) ==
    /\ ecall[c].pc = "model"
    /\ LET call == ecall[c]
           processed_text == EmbCacheKey(call.text)
           kinds == Append(call.kinds, kind)
           excs == [k \in 1..(EmbMaxRetries + 1) |->
                       IF k <= Len(kinds) THEN AttemptException(kinds[k])
                       ELSE "none"]
           r == RetryWithBackoff(excs, 0, EmbMaxRetries, EmbRetryExceptions)
       IN  ecall' = [ecall EXCEPT ![c] =
               IF r.calls > Len(kinds)
               THEN [call EXCEPT !.kinds = kinds]
               ELSE IF r.exc = "none"
               THEN [call EXCEPT !.kinds = kinds, !.pc = "write",
                                 !.path = "model", !.variant = variant,
                                 !.vec = Encode(processed_text, variant),
                                 !.expire_hours = DefaultExpireHours]
               ELSE [call EXCEPT !.kinds = kinds, !.pc = "write",
                                 !.path = "fallback",
                                 !.vec = EmbeddingFallback(processed_text,
                                             embedding_dimension),
                                 !.expire_hours = FallbackExpireHours]]
    /\ emb_last' = NoCall
    /\ UNCHANGED <<cbVars, emb_cache, emb_origin, matchVars, explVars,
                   pureVars>>

\* generate_embedding, lines 106-109 and 121-123: the cache write completes
\* (set_cache swallows a Redis failure), the vector is returned and the
\* wrapper records a success
GenerateEmbeddingWrite(c, write_ok) ==
    /\ ecall[c].pc = "write"
    /\ LET call == ecall[c]
           write == [key |-> EmbCacheKey(call.text), vec |-> call.vec,
                     expire_seconds |-> call.expire_hours * 3600]
       IN  /\ emb_cache' = ApplyWrite(emb_cache, write, write_ok)
           /\ emb_origin' = OriginAfter(emb_origin, emb_cache', write,
                                        write_ok, call.vec)
           /\ emb_last' = Ended(call, "returned", "none", call.vec, write,
                                write_ok)
    /\ ecall' = [ecall EXCEPT ![c] = IdleEmbCall]
    /\ OnSuccess
    /\ consec' = 0
    /\ UNCHANGED streak
    /\ UNCHANGED <<failure_threshold, recovery_timeout, now, cpc, trial, cres,
                   arrivals, rejections, invocations, matchVars, explVars,
                   pureVars>>

\* batch_generate_embeddings, lines 170-173: the first position from i on
\* whose text is not empty (Len + 1: none); the empty ones before it get the
\* zero vector with no suspension
RECURSIVE SkipEmpty(_, _)
SkipEmpty(processed_texts, i) ==
    IF i > Len(processed_texts) \/ processed_texts[i] # <<>> THEN i
    ELSE SkipEmpty(processed_texts, i + 1)

\* lines 198-201: embeddings[indices_to_process[i]] = batch_embeddings[i]
\* (mutant: writes at the position in the batch)
Splice_AtBatchPosition(embeddings, indices_to_process, batch_embeddings) ==
    [j \in 1..Len(embeddings) |->
        IF j <= Len(indices_to_process) THEN batch_embeddings[j]
        ELSE embeddings[j]]

Splice(embeddings, indices_to_process, batch_embeddings) ==
    [j \in 1..Len(embeddings) |->
        IF \E i \in 1..Len(indices_to_process) : indices_to_process[i] = j
        THEN batch_embeddings[CHOOSE i \in 1..Len(indices_to_process) :
                                  indices_to_process[i] = j]
        ELSE embeddings[j]]

\* lines 208-213: a failed batch fills every placeholder with the zero vector
\* (mutant: the placeholders are left in the list)
FillZero_Unfilled(embeddings, indices_to_process) == embeddings

FillZero(embeddings, indices_to_process) ==
    [j \in 1..Len(embeddings) |->
        IF (\E i \in 1..Len(indices_to_process) : indices_to_process[i] = j)
           /\ embeddings[j] = <<>>
        THEN ZeroVector(embedding_dimension)
        ELSE embeddings[j]]

\* batch_generate_embeddings up to its first suspension (lines 157-175): a
\* service that was not initialised raises RuntimeError, a list without a
\* non-empty text is answered at once, any other call is suspended in the
\* cache read of its first non-empty text
BatchGenerateEmbeddings(c, texts, loaded) ==
    /\ ecall[c].pc = "idle"
    /\ LET call == [IdleEmbCall EXCEPT !.op = "batch", !.text = texts,
                                       !.path = "batch"]
           processed_texts ==
               [i \in 1..Len(texts) |-> PreprocessText(texts[i])]
           first == SkipEmpty(processed_texts, 1)
           embeddings ==
               [i \in 1..(first - 1) |-> ZeroVector(embedding_dimension)]
       IN  IF ~loaded
           THEN /\ emb_last' = Ended(call, "raised", "RuntimeError", <<>>,
                                     NoWrite, FALSE)
                /\ UNCHANGED ecall
           ELSE IF first > Len(texts)
           THEN /\ emb_last' = Ended([call EXCEPT !.lookup = embeddings],
                                     "returned", "none", embeddings, NoWrite,
                                     FALSE)
                /\ UNCHANGED ecall
           ELSE /\ emb_last' = NoCall
                /\ ecall' = [ecall EXCEPT ![c] =
                                [call EXCEPT !.pc = "bread", !.k = first,
                                             !.processed_texts =
                                                 processed_texts,
                                             !.embeddings = embeddings]]
    /\ UNCHANGED <<cbVars, emb_cache, emb_origin, matchVars, explVars,
                   pureVars>>

\* lines 175-182: the cache read of position k completes; the vector or the
\* placeholder (<<>>, Python None) is appended, the empty texts that follow
\* get the zero vector, and the call is suspended in the next read, or in
\* the batched model call (line 191), or returns when nothing was missed
BatchGenerateEmbeddingsRead(c, read_ok) ==
    /\ ecall[c].pc = "bread"
    /\ LET call == ecall[c]
           k == call.k
           processed_text == call.processed_texts[k]
           cached_embedding ==
               GetCachedEmbedding(emb_cache, processed_text, read_ok)
           next == SkipEmpty(call.processed_texts, k + 1)
           embeddings ==
               call.embeddings \o <<cached_embedding>> \o
               [i \in 1..(next - k - 1) |-> ZeroVector(embedding_dimension)]
           missed == cached_embedding = <<>>
           looked == [call EXCEPT
                         !.embeddings = embeddings,
                         !.lookup = embeddings,
                         !.texts_to_process =
                             IF missed THEN Append(@, processed_text) ELSE @,
                         !.indices_to_process =
                             IF missed THEN Append(@, k) ELSE @]
       IN  IF next <= Len(call.text)
           THEN /\ emb_last' = NoCall
                /\ ecall' = [ecall EXCEPT ![c] = [looked EXCEPT !.k = next]]
           ELSE IF looked.texts_to_process = <<>>
           THEN /\ emb_last' = Ended(looked, "returned", "none", embeddings,
                                     NoWrite, FALSE)
                /\ ecall' = [ecall EXCEPT ![c] = IdleEmbCall]
           ELSE /\ emb_last' = NoCall
                /\ ecall' = [ecall EXCEPT ![c] =
                                [looked EXCEPT !.pc = "bmodel"]]
    /\ UNCHANGED <<cbVars, emb_cache, emb_origin, matchVars, explVars,
                   pureVars>>

\* lines 185-213: the batched model call ends.  When it returned, its
\* vectors take their places and the call is suspended in the first cache
\* write; when it raised, the placeholders are filled and the list returned
BatchGenerateEmbeddingsEncode(c, batch_ok, variant) ==
    /\ ecall[c].pc = "bmodel"
    /\ LET call == ecall[c]
           batch_embeddings ==
               [i \in 1..Len(call.texts_to_process) |->
                   Encode(call.texts_to_process[i], variant)]
       IN  IF batch_ok
           THEN /\ emb_last' = NoCall
                /\ ecall' = [ecall EXCEPT ![c] =
                       [call EXCEPT
                           !.pc = "bwrite", !.k = 1, !.kinds = <<"ok">>,
                           !.variant = variant,
                           !.batch_embeddings = batch_embeddings,
                           !.embeddings =
                               Splice(call.embeddings,
                                      call.indices_to_process,
                                      batch_embeddings)]]
           ELSE /\ emb_last' = Ended([call EXCEPT !.kinds = <<"other">>],
                                     "returned", "none",
                                     FillZero(call.embeddings,
                                              call.indices_to_process),
                                     NoWrite, FALSE)
                /\ ecall' = [ecall EXCEPT ![c] = IdleEmbCall]
    /\ UNCHANGED <<cbVars, emb_cache, emb_origin, matchVars, explVars,
                   pureVars>>

\* line 204: the cache write of the k-th fresh vector completes; the call is
\* suspended in the next write or returns the list
BatchGenerateEmbeddingsWrite(c, write_ok) ==
    /\ ecall[c].pc = "bwrite"
    /\ LET call == ecall[c]
           k == call.k
           write == [key |-> call.texts_to_process[k],
                     vec |-> call.batch_embeddings[k],
                     expire_seconds |-> DefaultExpireHours * 3600]
       IN  /\ emb_cache' = ApplyWrite(emb_cache, write, write_ok)
           /\ emb_origin' = OriginAfter(emb_origin, emb_cache', write,
                                        write_ok, write.vec)
           /\ IF k < Len(call.texts_to_process)
              THEN /\ emb_last' = NoCall
                   /\ ecall' = [ecall EXCEPT ![c] = [call EXCEPT !.k = k + 1]]
              ELSE /\ emb_last' = Ended(call, "returned", "none",
                                        call.embeddings, write, write_ok)
                   /\ ecall' = [ecall EXCEPT ![c] = IdleEmbCall]
    /\ UNCHANGED <<cbVars, matchVars, explVars, pureVars>>

\* a cache entry goes away: its TTL ran out, or it was evicted or cleared
CacheExpire(key) ==
    /\ key \in DOMAIN emb_cache
    /\ emb_cache' = [k \in DOMAIN emb_cache \ {key} |-> emb_cache[k]]
    /\ emb_origin' = [k \in DOMAIN emb_cache \ {key} |-> emb_origin[k]]
    /\ emb_last' = NoCall
    /\ UNCHANGED <<cbVars, ecall, matchVars, explVars, pureVars>>

\* time.time() advances by the breaker's recovery timeout (SpecEmb counts
\* seconds)
EmbTick ==
    /\ now < EmbMaxTime
    /\ now' = now + EmbRecoveryTimeout
    /\ emb_last' = NoCall
    /\ UNCHANGED <<failure_threshold, recovery_timeout, failure_count,
                   last_failure_time, state, cpc, trial, cres, consec, streak,
                   arrivals, rejections, invocations, emb_cache, emb_origin,
                   ecall, matchVars, explVars, pureVars>>

\* the callers of the breaker when nobody is calling
CallersIdle ==
    /\ now = 0
    /\ cpc = [c \in Callers |-> "idle"]
    /\ trial = [c \in Callers |-> FALSE]
    /\ cres = [c \in Callers |-> "none"]
    /\ consec = 0
    /\ streak = 0
    /\ arrivals = 0
    /\ rejections = 0
    /\ invocations = 0

\* module load: embedding_circuit_breaker, an empty cache
InitEmb ==
    /\ CircuitBreakerInit(EmbFailureThreshold, EmbRecoveryTimeout)
    /\ CallersIdle
    /\ EmbIdle
    /\ ExplIdle
    /\ PureIdle
    /\ MatchIdle

\* what the two callers the model follows ask for: the first any text, with
\* a model that may fail; the second one text, with a model that returns
\* (another vector than it returns to the first)
TextsOf(c) == IF c = 1 THEN RawTexts ELSE {<<"W", "o", "r", "k">>}
OutcomesOf(c) == IF c = 1 THEN ModelOutcomes ELSE {"ok"}

NextEmb ==
    \/ \E text \in RawTexts : GenerateEmbeddingRejected(text)
    \* loaded = FALSE: EmbeddingService() used without initialize()
    \* (jobs.py:44-46)
    \/ \E c \in EmbCalls :
          /\ ecall[c].pc = "idle"
          /\ \E text \in TextsOf(c), loaded \in BOOLEAN :
                GenerateEmbedding(c, text, loaded)
    \/ \E c \in EmbCalls, read_ok \in BOOLEAN : GenerateEmbeddingRead(c, read_ok)
    \/ \E c \in EmbCalls :
          /\ ecall[c].pc = "model"
          /\ \E kind \in OutcomesOf(c), variant \in ModelVariants \cap {c} :
                GenerateEmbeddingAttempt(c, kind, variant)
    \/ \E c \in EmbCalls, write_ok \in BOOLEAN :
          GenerateEmbeddingWrite(c, write_ok)
    \/ \E key \in DOMAIN emb_cache : CacheExpire(key)
    \/ EmbTick

SpecEmb == InitEmb /\ [][NextEmb]_vars

\* the initialised service with a cache in which earlier generate_embedding
\* calls have left fallback vectors
InitBatch ==
    /\ CircuitBreakerInit(EmbFailureThreshold, EmbRecoveryTimeout)
    /\ CallersIdle
    /\ MatchIdle
    /\ ExplIdle
    /\ PureIdle
    /\ emb_last = NoCall
    /\ ecall = [c \in EmbCalls |-> IdleEmbCall]
    /\ \E keys \in SUBSET ({PreprocessText(t) : t \in BatchTexts} \ {<<>>}) :
          /\ emb_cache = [k \in keys |->
                CacheEntry(EmbeddingFallback(k, embedding_dimension),
                           FallbackExpireHours)]
          /\ emb_origin = [k \in keys |-> emb_cache[k].vec]

BatchTextLists == UNION {[1..n -> BatchTexts] : n \in 0..MaxBatch}

\* the lists of the two callers the model follows: any list for the first,
\* a list of one text for the second (the only list passed to a service
\* that was not initialised)
BatchListsOf(c) ==
    IF c = 1 THEN BatchTextLists ELSE {<< <<"W", "o", "r", "k">> >>}

NextBatch ==
    \/ \E c \in EmbCalls :
          /\ ecall[c].pc = "idle"
          /\ \E texts \in BatchListsOf(c), loaded \in BOOLEAN :
                /\ loaded \/ texts \in BatchListsOf(2)
                /\ BatchGenerateEmbeddings(c, texts, loaded)
    \/ \E c \in EmbCalls, read_ok \in BOOLEAN :
          BatchGenerateEmbeddingsRead(c, read_ok)
    \/ \E c \in EmbCalls, batch_ok \in BOOLEAN :
          /\ ecall[c].pc = "bmodel"
          /\ \E variant \in ModelVariants \cap {c} :
                BatchGenerateEmbeddingsEncode(c, batch_ok, variant)
    \/ \E c \in EmbCalls, write_ok \in BOOLEAN :
          BatchGenerateEmbeddingsWrite(c, write_ok)
    \/ \E key \in DOMAIN emb_cache : CacheExpire(key)

SpecBatch == InitBatch /\ [][NextBatch]_vars

(***************************************************************************)
(* Python floats.  A float is an IEEE-754 double: [m, e] stands for        *)
(* m * 2^e with m a natural number of at most 53 bits, kept as its list of *)
(* base-2^15 digits, lowest first (<<>> is zero).  Every operation gives   *)
(* the exact result rounded to 53 bits, ties to even.                      *)
(***************************************************************************)
DigitBits == 15
Digit == 32768
MantissaBits == 53
\* binary places kept when a decimal literal is converted
LiteralBits == 75

RECURSIVE Pow2(_)
Pow2(k) == IF k = 0 THEN 1 ELSE 2 * Pow2(k - 1)

RECURSIVE BigOf(_)
BigOf(n) == IF n = 0 THEN <<>> ELSE <<n % Digit>> \o BigOf(n \div Digit)

RECURSIVE BigToInt(_)
BigToInt(a) == IF a = <<>> THEN 0 ELSE Head(a) + Digit * BigToInt(Tail(a))

RECURSIVE BigTrim(_)
BigTrim(a) ==
    IF a = <<>> \/ a[Len(a)] # 0 THEN a
    ELSE BigTrim(SubSeq(a, 1, Len(a) - 1))

RECURSIVE BigAdd(_, _, _)
BigAdd(a, b, carry) ==
    IF a = <<>> /\ b = <<>>
    THEN IF carry = 0 THEN <<>> ELSE <<carry>>
    ELSE LET x == (IF a = <<>> THEN 0 ELSE Head(a))
                  + (IF b = <<>> THEN 0 ELSE Head(b)) + carry
         IN  <<x % Digit>> \o BigAdd(IF a = <<>> THEN a ELSE Tail(a),
                                     IF b = <<>> THEN b ELSE Tail(b),
                                     x \div Digit)

\* a * k for a digit k
RECURSIVE BigScale(_, _, _)
BigScale(a, k, carry) ==
    IF a = <<>>
    THEN IF carry = 0 THEN <<>> ELSE <<carry>>
    ELSE LET x == Head(a) * k + carry
         IN  <<x % Digit>> \o BigScale(Tail(a), k, x \div Digit)

RECURSIVE BigMul(_, _)
BigMul(a, b) ==
    IF b = <<>> THEN <<>>
    ELSE BigTrim(BigAdd(BigScale(a, Head(b), 0),
                        <<0>> \o BigMul(a, Tail(b)), 0))

\* a * 2^bits
BigShiftLeft(a, bits) ==
    IF a = <<>> THEN a
    ELSE [i \in 1..(bits \div DigitBits) |-> 0]
         \o BigScale(a, Pow2(bits % DigitBits), 0)

\* quotient and remainder of a by a digit d, highest digit first
RECURSIVE BigDivMod(_, _)
BigDivMod(a, d) ==
    IF a = <<>> THEN [q |-> <<>>, r |-> 0]
    ELSE LET high == BigDivMod(Tail(a), d)
             x == high.r * Digit + Head(a)
         IN  [q |-> BigTrim(<<x \div d>> \o high.q), r |-> x % d]

\* floor(a / 2^bits)
BigShiftRight(a, bits) ==
    LET whole == bits \div DigitBits
    IN  IF whole >= Len(a) THEN <<>>
        ELSE BigDivMod(SubSeq(a, whole + 1, Len(a)),
                       Pow2(bits % DigitBits)).q

BigOdd(a) == a # <<>> /\ Head(a) % 2 = 1

RECURSIVE BitLength(_)
BitLength(n) == IF n = 0 THEN 0 ELSE 1 + BitLength(n \div 2)

BigBitLength(a) ==
    IF a = <<>> THEN 0
    ELSE DigitBits * (Len(a) - 1) + BitLength(a[Len(a)])

\* a >= b, for trimmed a and b
RECURSIVE BigAtLeast(_, _)
BigAtLeast(a, b) ==
    IF Len(a) # Len(b) THEN Len(a) > Len(b)
    ELSE IF a = <<>> THEN TRUE
    ELSE IF a[Len(a)] # b[Len(b)] THEN a[Len(a)] > b[Len(b)]
    ELSE BigAtLeast(BigTrim(SubSeq(a, 1, Len(a) - 1)),
                    BigTrim(SubSeq(b, 1, Len(b) - 1)))

\* a / 2^bits rounded to the nearest natural, ties to even; inexact says
\* that a itself is the floor of a value that has a fraction
RoundShift(a, bits, inexact) ==
    IF bits = 0 THEN a
    ELSE LET q == BigShiftRight(a, bits)
             upper == BigShiftRight(a, bits - 1)
             below == inexact \/ BigShiftLeft(upper, bits - 1) # a
             up == BigOdd(upper) /\ (below \/ BigOdd(q))
         IN  IF up THEN BigAdd(q, <<1>>, 0) ELSE q

\* the double nearest to n * 2^e
RoundDouble(n, e, inexact) ==
    LET excess == BigBitLength(n) - MantissaBits
    IN  IF excess <= 0 THEN [m |-> n, e |-> e]
        ELSE [m |-> RoundShift(n, excess, inexact), e |-> e + excess]

\* the double a decimal literal num / den stands for (den a digit)
Double(num, den) ==
    LET d == BigDivMod(BigShiftLeft(BigOf(num), LiteralBits), den)
    IN  RoundDouble(d.q, 0 - LiteralBits, d.r # 0)

\* x * y and x + y of two floats
FloatMul(x, y) == RoundDouble(BigMul(x.m, y.m), x.e + y.e, FALSE)

FloatAdd(x, y) ==
    LET e == IF x.e < y.e THEN x.e ELSE y.e
    IN  RoundDouble(BigAdd(BigShiftLeft(x.m, x.e - e),
                           BigShiftLeft(y.m, y.e - e), 0), e, FALSE)

\* x >= n for a float x below 2^53 and a natural n
FloatAtLeast(x, n) ==
    IF x.e >= 0 THEN BigAtLeast(BigShiftLeft(x.m, x.e), BigOf(n))
    ELSE BigAtLeast(x.m, BigShiftLeft(BigOf(n), 0 - x.e))

\* x to the nearest multiple of 1 / unit, ties to even, as a count of
\* such multiples: round(x, 2) for unit 100, format(x, ".1f") for unit 10
FloatDecimal(x, unit) ==
    IF x.e >= 0 THEN BigToInt(BigShiftLeft(BigScale(x.m, unit, 0), x.e))
    ELSE BigToInt(RoundShift(BigScale(x.m, unit, 0), 0 - x.e, FALSE))

(***************************************************************************)
(* MatchingEngine (matching_engine.py), the match-results cache            *)
(* (cache_service.py:212-245) and the match_results table.  A percentage   *)
(* is an integer count of hundredths (72.5 is 7250); a confidence is a     *)
(* count of thousandths (0.875 is 875).                                    *)
(***************************************************************************)
MaxConcurrentMatches == 10      \* asyncio.Semaphore(10)
SimilarityWeight == 7           \* similarity_weight = 0.7, in tenths
SkillWeight == 3                \* skill_weight = 0.3, in tenths
ProcessedLimit == 1000          \* get_processed_resumes(limit=1000)

\* resume ids of a request that name no stored resume: a well-formed UUID
\* that is not in the table, a string that is no UUID, "" and "  "
UnknownId == 0
MalformedId == -2
EmptyId == -3
BlankId == -4

\* the resumes table: NumResumes processed resumes, uploaded in id order
StoredResumes == 1..NumResumes

\* resume_repo.get_processed_resumes(limit): newest upload first
GetProcessedResumes(limit) ==
    [i \in 1..Min(NumResumes, limit) |-> NumResumes + 1 - i]

\* overall_score before it is rounded (lines 261-268): the float
\* match_percentage * 0.7 + match_percentage * 0.3 of two percentages that
\* are themselves round(..., 2) results, given in hundredths
WeightedScore(similarity, skill) ==
    FloatAdd(FloatMul(Double(similarity, 100), Double(SimilarityWeight, 10)),
             FloatMul(Double(skill, 100), Double(SkillWeight, 10)))

\* round(overall_score, 2) (line 287), in hundredths
\* (mutant: the weights swapped)
OverallScore_Swapped(similarity, skill) ==
    FloatDecimal(WeightedScore(skill, similarity), 100)

OverallScore(similarity, skill) ==
    FloatDecimal(WeightedScore(similarity, skill), 100)

\* the first sentence of _generate_match_explanation (lines 497-504),
\* chosen by comparing the unrounded float with 80, 60 and 40 (43.62 * 0.7
\* + 98.22 * 0.3 is 59.99999999999999 and opens as "moderate")
Opening(similarity, skill) ==
    LET overall_score == WeightedScore(similarity, skill)
    IN  IF FloatAtLeast(overall_score, 80) THEN "excellent"
        ELSE IF FloatAtLeast(overall_score, 60) THEN "good"
        ELSE IF FloatAtLeast(overall_score, 40) THEN "moderate"
        ELSE "limited"

\* the last sentence of _generate_match_explanation (lines 524-531), chosen
\* by the unrounded float and by the skill match_percentage
Recommendation(similarity, skill) ==
    LET overall_score == WeightedScore(similarity, skill)
    IN  IF FloatAtLeast(overall_score, 70)
           /\ FloatAtLeast(Double(skill, 100), 60)
        THEN "Recommended for interview consideration."
        ELSE IF FloatAtLeast(overall_score, 50)
        THEN "Consider for further review based on specific requirements."
        ELSE "May not be the best fit for current requirements."

\* the sentence about a list of skills (lines 511-521): none for an empty
\* list, the skills themselves for up to three (count 0), the length of the
\* list and its first three beyond
SkillSentence(skills) ==
    [count |-> IF Len(skills) <= 3 THEN 0 ELSE Len(skills),
     shown |-> IF Len(skills) <= 3 THEN skills ELSE SubSeq(skills, 1, 3)]

\* what the similarity and skill services can find for a pair
Analysis(similarity, skill, matched, missing, additional, confidence) ==
    [similarity |-> similarity, skill |-> skill, matched |-> matched,
     missing |-> missing, additional |-> additional,
     confidence |-> confidence]

\* the analyses a resume's stored text and embedding can give against the
\* job; a resume that is re-parsed between two runs can give another one
AnalysesOf(resume_id) ==
    IF resume_id = 1
    THEN {Analysis(9000, 9000, <<"python", "sql">>, <<>>, <<"go">>, 924),
          Analysis(4000, 4000, <<"sql">>, <<"python">>, <<>>, 378)}
    ELSE IF resume_id = 2
    THEN {Analysis(7200, 7200, <<"python">>, <<"sql">>, <<>>, 875)}
    ELSE IF resume_id = 3
    THEN {Analysis(6500, 6500, <<"sql">>, <<"python">>, <<>>, 679)}
    ELSE IF resume_id = 4
    THEN {Analysis(4000, 4000, <<>>, <<"python", "sql">>, <<"go">>, 378)}
    ELSE IF resume_id = 5
    THEN {Analysis(1000, 1000, <<>>, <<"python", "sql">>, <<>>, 119)}
    ELSE IF resume_id = 8
    THEN {Analysis(8000, 5000, <<"python">>, <<"sql">>, <<>>, 818)}
    ELSE IF resume_id = 9
    THEN {Analysis(7200, 7200, <<"sql">>, <<"python">>, <<"go">>, 875)}
    ELSE IF resume_id = 10
    THEN {Analysis(5000, 5015, <<"python">>, <<"sql">>, <<>>, 500)}
    ELSE {Analysis(5000, 5000, <<"python">>, <<"sql">>, <<>>, 500)}

\* the percentages of the analyses above, and what lines 265-268, 280 and
\* 287 make of each pair of them, worked out once
AnalysedPercentages ==
    {<<a.similarity, a.skill>> : a \in UNION {AnalysesOf(r) : r \in 1..10}}

Scores ==
    [p \in AnalysedPercentages |->
        [overall_score |-> OverallScore(p[1], p[2]),
         opening |-> Opening(p[1], p[2]),
         recommendation |-> Recommendation(p[1], p[2])]]

ScoreOf(similarity, skill) ==
    IF <<similarity, skill>> \in DOMAIN Scores
    THEN Scores[<<similarity, skill>>]
    ELSE [overall_score |-> OverallScore(similarity, skill),
          opening |-> Opening(similarity, skill),
          recommendation |-> Recommendation(similarity, skill)]

\* _generate_match_explanation, lines 495-533: the sentences that are
\* joined, for the overall score and the skill_match of the analysis
ExplanationOf(similarity, skill, matched_skills, missing_skills) ==
    [opening |-> ScoreOf(similarity, skill).opening,
     matched |-> SkillSentence(matched_skills),
     missing |-> SkillSentence(missing_skills),
     recommendation |-> ScoreOf(similarity, skill).recommendation]

\* _generate_match_explanation, lines 535-537: when building the sentences
\* raises, the answer is the score alone, as str() writes the unrounded
\* float.  (calculate_comprehensive_match hands over the dict of
\* analyze_skill_gaps, whose skill lists are lists of str and whose
\* match_percentage is a float, and two strings: nothing raises there.)
MatchExplanationOnError(similarity, skill) ==
    [opening |-> "Match score", score |-> WeightedScore(similarity, skill)]

\* the ComprehensiveMatch built at lines 284-296
ComprehensiveMatch(job_id, resume_id, a) ==
    [job_id |-> job_id, resume_id |-> resume_id,
     overall_score |-> ScoreOf(a.similarity, a.skill).overall_score,
     similarity_score |-> a.similarity,
     skill_match_percentage |-> a.skill,
     matched_skills |-> a.matched, missing_skills |-> a.missing,
     additional_skills |-> a.additional,
     explanation |-> ExplanationOf(a.similarity, a.skill, a.matched,
                                   a.missing),
     confidence |-> a.confidence]

\* results of one task of the gather
NoResult == [kind |-> "pending", match |-> NoMatch]
Returned(match) == [kind |-> "match", match |-> match]
ReturnedNone == [kind |-> "none", match |-> NoMatch]
Raised == [kind |-> "raised", match |-> NoMatch]

\* how calculate_single_match can end for a pair: resume 6 is one for which
\* calculate_comprehensive_match catches an exception and returns None,
\* resume 7 one whose task ends with an exception in the gather's list
PairOutcomes(job_id, resume_id) ==
    IF resume_id = 6 THEN {ReturnedNone}
    ELSE IF resume_id = 7 THEN {Raised}
    ELSE {Returned(ComprehensiveMatch(job_id, resume_id, a)) :
             a \in AnalysesOf(resume_id)}

\* lines 317-341: the resumes a request resolves to, in request order
\* (an id is skipped when it is empty, no UUID, or names no resume)
ResumeFound(resume_id) ==
    /\ resume_id \notin {EmptyId, BlankId}
    /\ resume_id # MalformedId
    /\ resume_id \in StoredResumes

ResolveResumes(resume_ids) ==
    IF resume_ids # <<>>
    THEN SelectSeq(resume_ids, ResumeFound)
    ELSE GetProcessedResumes(ProcessedLimit)

\* lines 392-399: the ComprehensiveMatch results at or above the threshold,
\* in task order; None and exceptions are passed over
\* (mutant: the filter stops at the first result that is no match)
RECURSIVE FilterSuccessful_Aborting(_, _)
FilterSuccessful_Aborting(match_results, min_score_threshold) ==
    IF match_results = <<>> THEN <<>>
    ELSE IF Head(match_results).kind # "match" THEN <<>>
    ELSE (IF Head(match_results).match.overall_score >= min_score_threshold
          THEN <<Head(match_results).match>> ELSE <<>>)
         \o FilterSuccessful_Aborting(Tail(match_results), min_score_threshold)

RECURSIVE FilterSuccessful(_, _)
FilterSuccessful(match_results, min_score_threshold) ==
    IF match_results = <<>> THEN <<>>
    ELSE (IF /\ Head(match_results).kind = "match"
             /\ Head(match_results).match.overall_score >= min_score_threshold
          THEN <<Head(match_results).match>> ELSE <<>>)
         \o FilterSuccessful(Tail(match_results), min_score_threshold)

\* list.sort(key=overall_score, reverse=True): stable, equal scores keep
\* the order they had
RECURSIVE InsertByScore(_, _)
InsertByScore(sorted, match) ==
    IF sorted = <<>> THEN <<match>>
    ELSE IF Head(sorted).overall_score >= match.overall_score
         THEN <<Head(sorted)>> \o InsertByScore(Tail(sorted), match)
         ELSE <<match>> \o sorted

\* (mutant: the list is left in task order)
SortByScore_Unsorted(matches) == matches

RECURSIVE SortByScore(_)
SortByScore(matches) ==
    IF matches = <<>> THEN <<>>
    ELSE InsertByScore(SortByScore(SubSeq(matches, 1, Len(matches) - 1)),
                       matches[Len(matches)])

\* lines 405-406: `if request.max_results:` then the first max_results
LimitResults(matches, max_results) ==
    IF max_results # None /\ max_results # 0
    THEN SubSeq(matches, 1, Min(max_results, Len(matches)))
    ELSE matches

\* sorted(resume_ids)
RECURSIVE InsertAscending(_, _)
InsertAscending(sorted, id) ==
    IF sorted = <<>> THEN <<id>>
    ELSE IF Head(sorted) <= id
         THEN <<Head(sorted)>> \o InsertAscending(Tail(sorted), id)
         ELSE <<id>> \o sorted

RECURSIVE SortedIds(_)
SortedIds(resume_ids) ==
    IF resume_ids = <<>> THEN <<>>
    ELSE InsertAscending(SortedIds(Tail(resume_ids)), Head(resume_ids))

\* the key of cache_match_results / get_cached_match_results
MatchCacheKey(job_id, resume_ids) == <<job_id, SortedIds(resume_ids)>>

\* lines 409-423: the dictionaries written to the cache
CacheData(successful_matches) ==
    [i \in 1..Len(successful_matches) |->
        [job_id |-> successful_matches[i].job_id,
         resume_id |-> successful_matches[i].resume_id,
         overall_score |-> successful_matches[i].overall_score,
         similarity_score |-> successful_matches[i].similarity_score,
         skill_match_percentage |-> successful_matches[i].skill_match_percentage,
         matched_skills |-> successful_matches[i].matched_skills,
         missing_skills |-> successful_matches[i].missing_skills,
         additional_skills |-> successful_matches[i].additional_skills,
         explanation |-> successful_matches[i].explanation,
         confidence |-> successful_matches[i].confidence]]

\* get_cached_match_results: None when the read fails or the key is absent
GetCachedMatchResults(cache, key, read_ok) ==
    IF read_ok /\ key \in DOMAIN cache THEN cache[key] ELSE <<>>

\* cache_match_results: set_cache swallows a failed write
CacheMatchResults(cache, key, results, write_ok) ==
    IF write_ok
    THEN [k \in DOMAIN cache \cup {key} |->
             IF k = key THEN results ELSE cache[k]]
    ELSE cache

\* lines 351-368: cached dictionaries back to matches, threshold applied
\* (mutant: the threshold of the request is not applied)
RECURSIVE FromCache_Unfiltered(_, _)
FromCache_Unfiltered(cached_results, min_score_threshold) ==
    IF cached_results = <<>> THEN <<>>
    ELSE <<[job_id |-> Head(cached_results).job_id,
            resume_id |-> Head(cached_results).resume_id,
            overall_score |-> Head(cached_results).overall_score,
            similarity_score |-> Head(cached_results).similarity_score,
            skill_match_percentage |-> Head(cached_results).skill_match_percentage,
            matched_skills |-> Head(cached_results).matched_skills,
            missing_skills |-> Head(cached_results).missing_skills,
            additional_skills |-> Head(cached_results).additional_skills,
            explanation |-> Head(cached_results).explanation,
            confidence |-> Head(cached_results).confidence]>>
         \o FromCache_Unfiltered(Tail(cached_results), min_score_threshold)

RECURSIVE FromCache(_, _)
FromCache(cached_results, min_score_threshold) ==
    IF cached_results = <<>> THEN <<>>
    ELSE (IF Head(cached_results).overall_score >= min_score_threshold
          THEN <<[job_id |-> Head(cached_results).job_id,
                  resume_id |-> Head(cached_results).resume_id,
                  overall_score |-> Head(cached_results).overall_score,
                  similarity_score |-> Head(cached_results).similarity_score,
                  skill_match_percentage |-> Head(cached_results).skill_match_percentage,
                  matched_skills |-> Head(cached_results).matched_skills,
                  missing_skills |-> Head(cached_results).missing_skills,
                  additional_skills |-> Head(cached_results).additional_skills,
                  explanation |-> Head(cached_results).explanation,
                  confidence |-> Head(cached_results).confidence]>>
          ELSE <<>>)
         \o FromCache(Tail(cached_results), min_score_threshold)

\* a value written to a Numeric(5, 2) column: two decimals are kept, the
\* rest is rounded away (half away from zero).  A confidence goes in as
\* thousandths and is kept as hundredths.
Numeric52(thousandths) == (thousandths + 5) \div 10

\* lines 449-465 and the columns of match_results: the row a match is
\* written as (percentages have two decimals already)
MatchData(match) ==
    [job_id |-> match.job_id, resume_id |-> match.resume_id,
     match_score |-> match.overall_score,
     confidence_score |-> Numeric52(match.confidence),
     explanation |-> match.explanation,
     key_strengths |-> match.matched_skills,
     missing_skills |-> match.missing_skills,
     skill_matches |-> [matched |-> match.matched_skills,
                        missing |-> match.missing_skills,
                        additional |-> match.additional_skills],
     skills_score |-> match.skill_match_percentage]

\* rows of the table for a pair (a row's id is its position)
RowsOf(table, job_id, resume_id) ==
    {i \in 1..Len(table) :
        table[i].job_id = job_id /\ table[i].resume_id = resume_id}

\* match_result_repo.get_match: scalar_one_or_none, 0 for None
GetMatch(table, job_id, resume_id) ==
    LET rows == RowsOf(table, job_id, resume_id)
    IN  IF rows = {} THEN [id |-> 0, raised |-> FALSE]
        ELSE IF Cardinality(rows) = 1
             THEN [id |-> CHOOSE i \in rows : TRUE, raised |-> FALSE]
             ELSE [id |-> 0, raised |-> TRUE]

\* idx_match_unique: an INSERT for a pair that has a row is refused
\* (mutant: the table without the unique index)
UniqueViolation_NoIndex(table, job_id, resume_id) == FALSE

UniqueViolation(table, job_id, resume_id) ==
    RowsOf(table, job_id, resume_id) # {}

\* asyncio.Semaphore(10).acquire does not block while the count is positive
\* (mutant: no limit)
CanAcquire_Unbounded(in_flight) == TRUE

CanAcquire(in_flight) == in_flight < MaxConcurrentMatches

\* the requests a caller of match_resumes_to_job can make.  resume_ids <<>>
\* stands for None and for [] alike (both are falsy at line 317).
RequestIds == {1, 2, 6, 7, 9, UnknownId, MalformedId, EmptyId}

LongLists ==
    {<<4, 1, 5, 3, 2>>, <<6, 1, 7, 2, 9>>, <<BlankId, 8, 3>>}

WideLists ==
    UNION {[1..n -> RequestIds] : n \in 0..MaxListLen} \cup LongLists

NarrowLists == {<<1>>, <<2, 1>>, <<1, 2>>}

RequestPool(pool) ==
    IF pool = "wide"
    THEN [job_id : {1}, resume_ids : WideLists,
          min_score_threshold : {0, 7000, 10000}, max_results : {None, 1, 2}]
    ELSE IF pool = "narrow"
    THEN [job_id : {1}, resume_ids : NarrowLists,
          min_score_threshold : {0, 8000}, max_results : {None, 1}]
    ELSE {}

\* the computations of a run that hold the semaphore
InFlight(rn) == {i \in DOMAIN rn.task : rn.task[i] = "running"}

\* a run is inside _store_match_results
InStore(rn) == rn.pc \in {"store_get", "store_put"}

\* match_resumes_to_job up to the gather (lines 312-390): the resumes are
\* resolved and the cache is asked; a hit is filtered, sorted, limited and
\* returned, a miss creates one task per resume.  A database error while
\* resolving is caught at line 436 and [] returned.
MatchBegin(r, request, resolve_ok, read_ok) ==
    /\ run[r].pc = "idle"
    /\ request \in RequestPool(run[r].pool)
    /\ \E resumes \in {ResolveResumes(request.resume_ids)} :
         LET reads_db == \/ request.resume_ids = <<>>
                         \/ \E i \in DOMAIN request.resume_ids :
                               request.resume_ids[i]
                                   \notin {EmptyId, BlankId, MalformedId}
             key == MatchCacheKey(request.job_id, resumes)
             cached_results == GetCachedMatchResults(mcache, key, read_ok)
         IN  run' = [run EXCEPT ![r] =
                 IF reads_db /\ ~resolve_ok
                 THEN [@ EXCEPT !.pc = "done", !.request = request,
                                !.path = "error"]
                 ELSE IF resumes = <<>>
                 THEN [@ EXCEPT !.pc = "done", !.request = request,
                                !.path = "no_resumes"]
                 ELSE IF cached_results # <<>>
                 THEN [@ EXCEPT !.pc = "done", !.request = request,
                                !.resumes = resumes, !.path = "cache",
                                !.cached_results = cached_results,
                                !.read_ok = read_ok,
                                !.ret = LimitResults(
                                    SortByScore(FromCache(cached_results,
                                        request.min_score_threshold)),
                                    request.max_results)]
                 ELSE [@ EXCEPT !.pc = "gather", !.request = request,
                                !.resumes = resumes, !.path = "computed",
                                !.read_ok = read_ok,
                                !.task = [i \in 1..Len(resumes) |-> "pending"],
                                !.result = [i \in 1..Len(resumes) |-> NoResult]]]
    /\ UNCHANGED <<db, mcache, cbVars, embVars, explVars,
                 pureVars, pair>>

\* calculate_single_match enters `async with semaphore`: the tasks reach
\* the semaphore in list order and its waiters are woken first come first
\* served
TaskAcquire(r, i) ==
    /\ run[r].pc = "gather"
    /\ i \in DOMAIN run[r].task
    /\ run[r].task[i] = "pending"
    /\ \A j \in 1..(i - 1) : run[r].task[j] # "pending"
    /\ CanAcquire(Cardinality(InFlight(run[r])))
    /\ run' = [run EXCEPT ![r].task[i] = "running"]
    /\ UNCHANGED <<db, mcache, cbVars, embVars, explVars,
                 pureVars, pair>>

\* calculate_comprehensive_match ends and the semaphore is released
TaskFinish(r, i, outcome) ==
    /\ run[r].pc = "gather"
    /\ i \in DOMAIN run[r].task
    /\ run[r].task[i] = "running"
    /\ outcome \in PairOutcomes(run[r].request.job_id, run[r].resumes[i])
    /\ run' = [run EXCEPT ![r].task[i] = "done", ![r].result[i] = outcome]
    /\ UNCHANGED <<db, mcache, cbVars, embVars, explVars,
                 pureVars, pair>>

\* the gather returns (lines 390-427): filter, sort, limit, cache write;
\* then _store_match_results is entered, whose loop does nothing for []
GatherDone(r, write_ok) ==
    /\ run[r].pc = "gather"
    /\ \A i \in DOMAIN run[r].task : run[r].task[i] = "done"
    /\ \E successful_matches \in
           {LimitResults(SortByScore(FilterSuccessful(run[r].result,
                             run[r].request.min_score_threshold)),
                         run[r].request.max_results)} :
         /\ mcache' = CacheMatchResults(mcache,
                          MatchCacheKey(run[r].request.job_id, run[r].resumes),
                          CacheData(successful_matches), write_ok)
         /\ run' = [q \in Runs |->
                      IF q = r
                      THEN IF successful_matches = <<>>
                           THEN [run[r] EXCEPT !.pc = "done"]
                           ELSE [run[r] EXCEPT
                                   !.pc = "store_get", !.k = 1,
                                   !.matches = successful_matches,
                                   !.overlap = \E o \in Runs \ {r} :
                                                  InStore(run[o])]
                      ELSE IF successful_matches # <<>> /\ InStore(run[q])
                           THEN [run[q] EXCEPT !.overlap = TRUE]
                           ELSE run[q]]
    /\ UNCHANGED <<db, cbVars, embVars, explVars,
                 pureVars, pair>>

\* _store_match_results, lines 467-471: get_match for the k-th match.  Any
\* exception ends the loop (line 484) and the matches are still returned.
StoreGet(r, db_ok) ==
    /\ run[r].pc = "store_get"
    /\ LET match == run[r].matches[run[r].k]
           found == GetMatch(db, match.job_id, match.resume_id)
       IN  run' = [run EXCEPT ![r] =
               IF ~db_ok \/ found.raised
               THEN [@ EXCEPT !.pc = "done", !.put = "failed",
                              !.ret = run[r].matches]
               ELSE [@ EXCEPT !.pc = "store_put", !.existing = found.id]]
    /\ UNCHANGED <<db, mcache, cbVars, embVars, explVars,
                 pureVars, pair>>

\* lines 473-480: update of the row found, or create.  create commits an
\* INSERT, which the unique index refuses when the pair has a row by now.
StorePut(r, db_ok) ==
    /\ run[r].pc = "store_put"
    /\ LET match == run[r].matches[run[r].k]
           refused == /\ run[r].existing = 0
                      /\ UniqueViolation(db, match.job_id, match.resume_id)
           last == run[r].k = Len(run[r].matches)
       IN  IF ~db_ok \/ refused
           THEN /\ run' = [run EXCEPT ![r].pc = "done",
                               ![r].put = IF db_ok THEN "refused" ELSE "failed",
                               ![r].ret = run[r].matches]
                /\ db' = db
           ELSE /\ db' = IF run[r].existing # 0
                         THEN [db EXCEPT ![run[r].existing] = MatchData(match)]
                         ELSE Append(db, MatchData(match))
                /\ run' = [run EXCEPT ![r] =
                       IF last
                       THEN [@ EXCEPT !.pc = "done", !.ret = run[r].matches,
                                      !.put = IF run[r].existing # 0
                                              THEN "updated" ELSE "created"]
                       ELSE [@ EXCEPT !.pc = "store_get", !.k = @ + 1,
                                      !.put = IF run[r].existing # 0
                                              THEN "updated" ELSE "created"]]
    /\ UNCHANGED <<mcache, cbVars, embVars, explVars,
                 pureVars, pair>>

\* a match-results entry goes away: its TTL (expire_hours=6, line 426) ran
\* out
MatchCacheExpire(key) ==
    /\ key \in DOMAIN mcache
    /\ mcache' = [k \in DOMAIN mcache \ {key} |-> mcache[k]]
    /\ UNCHANGED <<run, db, pair, cbVars, embVars, explVars, pureVars>>

\* one call of match_resumes_to_job on an empty table and an empty cache
InitMatch ==
    /\ CircuitBreakerInit(EmbFailureThreshold, EmbRecoveryTimeout)
    /\ CallersIdle
    /\ EmbIdle
    /\ ExplIdle
    /\ PureIdle
    /\ run = [r \in Runs |-> IdleRun(IF r = 1 THEN "wide" ELSE "none")]
    /\ db = <<>>
    /\ mcache = <<>>
    /\ PairIdle

MatchStep(r) ==
    \/ /\ run[r].pc = "idle"
       /\ \E request \in RequestPool(run[r].pool),
             resolve_ok, read_ok \in BOOLEAN :
             MatchBegin(r, request, resolve_ok, read_ok)
    \/ \E i \in 1..NumResumes : TaskAcquire(r, i)
    \/ \E i \in 1..NumResumes :
          \E outcome \in (IF i \in DOMAIN run[r].resumes
                          THEN PairOutcomes(run[r].request.job_id,
                                            run[r].resumes[i])
                          ELSE {}) :
             TaskFinish(r, i, outcome)
    \/ \E write_ok \in BOOLEAN : GatherDone(r, write_ok)
    \/ \E db_ok \in BOOLEAN : StoreGet(r, db_ok)
    \/ \E db_ok \in BOOLEAN : StorePut(r, db_ok)

NextMatch ==
    \/ \E r \in Runs : MatchStep(r)
    \/ \E key \in DOMAIN mcache : MatchCacheExpire(key)

SpecMatch == InitMatch /\ [][NextMatch]_vars

\* two calls of match_resumes_to_job on the same job, in any interleaving
InitRerun ==
    /\ CircuitBreakerInit(EmbFailureThreshold, EmbRecoveryTimeout)
    /\ CallersIdle
    /\ EmbIdle
    /\ ExplIdle
    /\ PureIdle
    /\ run = [r \in Runs |-> IdleRun("narrow")]
    /\ db = <<>>
    /\ mcache = <<>>
    /\ PairIdle

SpecRerun == InitRerun /\ [][NextMatch]_vars

(***************************************************************************)
(* MatchingEngine.calculate_comprehensive_match (matching_engine.py:       *)
(* 209-302) as match_resumes_to_job calls it (line 384) for a request of   *)
(* the match endpoint (matching.py:46-98; the upload endpoint,             *)
(* resumes.py:164-181, goes the same way), with generate_job_embedding,    *)
(* generate_resume_embedding (83-152) and                                  *)
(* batch_generate_resume_embeddings (154-207), and the operations that     *)
(* write the two rows: update_job (jobs.py:265-311),                       *)
(* process_resume_content (resumes.py:373-425), bulk_update_embeddings     *)
(* (job.py:95-107, resume.py:131-143) and delete_resume                    *)
(* (resumes.py:341-370), for one job and one resume.  A stored embedding   *)
(* is "none" (NULL), "empty" or "vec".  A call is followed from one        *)
(* suspension to the next: every SELECT, the embedding service, the        *)
(* UPDATE or DELETE statement, the COMMIT, the similarity service.  A      *)
(* statement takes effect for the other calls when it is committed.        *)
(* Every call runs in an AsyncSession of its own (get_db,                  *)
(* database.py:49-59, one per request), made with expire_on_commit=False   *)
(* (database.py:36-42): an object the session has loaded keeps the         *)
(* attributes it was loaded with, whatever a later SELECT of the session   *)
(* finds in the row, until a statement of the session itself changes them. *)
(* The ids are UUIDs the database draws when a row is created (create_job, *)
(* create_resume), so a row that is missing does not come into being, and  *)
(* no endpoint removes a job row (delete_job deactivates it,               *)
(* jobs.py:383).                                                           *)
(***************************************************************************)
StoredEmbeddings == {"none", "empty", "vec"}

\* what the embedding service does when it is asked for a vector: it
\* returns one, or it raises (every caller here catches it)
GenerationOutcomes == {"returned", "raised"}

\* what the embedding service does for an operation: update_job asks an
\* EmbeddingService it has just constructed (jobs.py:304), whose model is
\* not loaded, so that generate_embedding raises
\* (embedding_service.py:76-80) and update_job stores no embedding
GenerationOutcomesOf(op) ==
    IF op = "update_job" THEN {"raised"} ELSE GenerationOutcomes

\* how the UPDATE of BaseRepository.update can end (base.py:60-64): it is
\* done; it raises and the session goes on ("failed": the statement did not
\* reach the server); or it raises and the server has aborted the
\* transaction, so that the next statement of the session raises as well
\* ("aborted")
UpdateOutcomes == {"done", "failed", "aborted"}

\* how the COMMIT can end (base.py:65): it is done, or it raises and the
\* session, left in the middle of its commit, takes no further statement
CommitOutcomes == {"done", "aborted"}

\* the operations that generate an embedding and store it
EmbeddingWriters ==
    {"generate_job_embedding", "generate_resume_embedding",
     "batch_generate_resume_embeddings", "update_job",
     "process_resume_content"}

\* lines 230 and 234: the entity has no usable embedding
\* (mutant: an embedding is generated whatever is stored)
NeedsEmbedding_Always(embedding) == TRUE

NeedsEmbedding(embedding) == embedding \in {"none", "empty"}

\* the committed row of an entity
RowOf(store, entity) ==
    IF entity = "job"
    THEN [found |-> store.job_found, embedding |-> store.job_embedding]
    ELSE [found |-> store.resume_found, embedding |-> store.resume_embedding]

\* BaseRepository.get (base.py:26-31) in a session that holds the object
\* held of the entity (held.found is FALSE when it holds none): the SELECT
\* finds the row or does not; for a row whose object the session holds
\* already, that object is returned as it is, with the embedding the
\* session knows, and not the one of the row
SessionGet(store, entity, held) ==
    IF ~RowOf(store, entity).found
    THEN [found |-> FALSE, embedding |-> "none"]
    ELSE IF held.found THEN held
    ELSE RowOf(store, entity)

\* the UPDATE of BaseRepository.update (base.py:60-64) is a statement of
\* the ORM: the session sets the new embedding in the object it holds of
\* the entity
Synchronized(call) ==
    IF call.entity = "job" /\ call.job.found
    THEN [call EXCEPT !.job = [found |-> TRUE, embedding |-> call.value]]
    ELSE IF call.entity = "resume" /\ call.resume.found
    THEN [call EXCEPT !.resume = [found |-> TRUE, embedding |-> call.value]]
    ELSE call

\* the store after the COMMIT of an UPDATE of the embedding that met
\* rowcount rows (base.py:60-65; job.py:99-103): a row that has gone since
\* is not written
Updated(store, entity, rowcount, embedding) ==
    IF rowcount = 0 \/ ~RowOf(store, entity).found THEN store
    ELSE IF entity = "job" THEN [store EXCEPT !.job_embedding = embedding]
    ELSE [store EXCEPT !.resume_embedding = embedding]

\* the store after the COMMIT of a DELETE of the resume that met rowcount
\* rows (base.py:72-75)
Deleted(store, rowcount) ==
    IF rowcount = 0 THEN store
    ELSE [store EXCEPT !.resume_found = FALSE, !.resume_embedding = "none"]

\* the calls whose steps and end the model keeps for the properties; the
\* other call is what goes on around them
ObservedCalls == {1}

\* what a call that ended leaves in pair.call
PairEnded(call, result) ==
    [op |-> call.op, resume_id |-> call.resume_id, before |-> call.before,
     events |-> call.events, result |-> <<result>>,
     generated |-> call.generated, read |-> <<call.job, call.resume>>]

\* a call ends with result
PairReturn(c, call, result, store) ==
    pair' = [store |-> store,
             call |-> IF c \in ObservedCalls THEN PairEnded(call, result)
                      ELSE NoPairCall,
             calls |-> [pair.calls EXCEPT ![c] = IdlePairCall]]

\* a call goes on to its next suspension
PairGoOn(c, call, store) ==
    pair' = [store |-> store, call |-> NoPairCall,
             calls |-> [pair.calls EXCEPT ![c] = call]]

\* the steps of a calculate_comprehensive_match call are kept with it
\* (before holds the rows as they were when an observed call began)
Logged(call, kind, entity) ==
    IF call.op = "calculate_comprehensive_match" /\ call.before # <<>>
    THEN [call EXCEPT !.events = Append(@, <<kind, entity>>)]
    ELSE call

\* generate_job_embedding / generate_resume_embedding is called for an
\* entity (lines 231, 235): the call is suspended in the get of lines 90
\* and 125
Generating(call, entity) ==
    [call EXCEPT !.pc = "entity_get", !.entity = entity]

\* calculate_comprehensive_match from line 234 on, job and resume being
\* the objects the call holds: the resume's embedding is generated when it
\* is missing; otherwise lines 238-245 return None when an embedding is
\* still None or empty (a resume that the refresh did not find has no
\* embedding attribute: the AttributeError is caught at line 298 and None
\* returned), and the call is suspended in calculate_match_score
AfterJob(c, call, store) ==
    IF call.entity # "resume" /\ NeedsEmbedding(call.resume.embedding)
    THEN PairGoOn(c, Generating(call, "resume"), store)
    ELSE IF \/ ~call.job.found
            \/ ~call.resume.found
            \/ call.job.embedding \in {"none", "empty"}
            \/ call.resume.embedding \in {"none", "empty"}
    THEN PairReturn(c, call, ReturnedNone, store)
    ELSE PairGoOn(c, [call EXCEPT !.pc = "similarity"], store)

\* how an operation goes on when the embedding it wanted is stored
\* (success) or is not: calculate_comprehensive_match does not look at what
\* generate_job_embedding returned and reads the entity again;
\* generate_job_embedding, generate_resume_embedding and
\* batch_generate_resume_embeddings return it; update_job answers with the
\* job (jobs.py:308-311) and process_resume_content with None
EmbeddingDone(c, call, success, store) ==
    IF call.op = "calculate_comprehensive_match"
    THEN PairGoOn(c, [call EXCEPT !.pc = "reget"], store)
    ELSE PairReturn(c, call,
                    IF call.op = "update_job"
                    THEN [kind |-> "job", match |-> NoMatch]
                    ELSE IF call.op = "process_resume_content"
                    THEN ReturnedNone
                    ELSE [kind |-> IF success THEN "true" ELSE "false",
                          match |-> NoMatch],
                    store)

\* the match endpoint is called for the job and the resume
\* (matching.py:46): suspended in its get of the job
MatchRequest(c) ==
    /\ pair.calls[c].pc = "idle"
    /\ PairGoOn(c, [IdlePairCall EXCEPT
                       !.op = "match_resumes_to_job",
                       !.pc = "load_job",
                       !.resume_id = pair.store.resume_id], pair.store)
    /\ UNCHANGED <<run, db, mcache, cbVars, embVars, explVars, pureVars>>

\* matching.py:62-67 (resumes.py:164): the session loads the job, and the
\* endpoint keeps it; without the row 404 is raised; with it
\* match_resumes_to_job is called and suspended in its get of the resume
PairLoadJob(c) ==
    /\ pair.calls[c].pc = "load_job"
    /\ LET call == [pair.calls[c] EXCEPT
                       !.job = SessionGet(pair.store, "job", @)]
       IN  IF ~call.job.found
           THEN PairReturn(c, call, Raised, pair.store)
           ELSE PairGoOn(c, [call EXCEPT !.pc = "load_resume"], pair.store)
    /\ UNCHANGED <<run, db, mcache, cbVars, embVars, explVars, pureVars>>

\* lines 325-346: the session loads the resume, and match_resumes_to_job
\* keeps it in resumes; without the row it returns [] (line 339); with it
\* the call is suspended in the cache lookup, which finds nothing
PairLoadResume(c) ==
    /\ pair.calls[c].pc = "load_resume"
    /\ LET call == [pair.calls[c] EXCEPT
                       !.resume = SessionGet(pair.store, "resume", @)]
       IN  IF ~call.resume.found
           THEN PairReturn(c, call, [kind |-> "empty", match |-> NoMatch],
                           pair.store)
           ELSE PairGoOn(c, [call EXCEPT !.pc = "loaded"], pair.store)
    /\ UNCHANGED <<run, db, mcache, cbVars, embVars, explVars, pureVars>>

\* calculate_comprehensive_match is called (lines 384 and 216): suspended
\* in the get of the job
CalculateComprehensiveMatch(c) ==
    /\ pair.calls[c].pc = "loaded"
    /\ PairGoOn(c, [pair.calls[c] EXCEPT
                       !.op = "calculate_comprehensive_match",
                       !.pc = "get_job",
                       !.before = IF c \in ObservedCalls
                                  THEN <<pair.store>> ELSE <<>>],
                pair.store)
    /\ UNCHANGED <<run, db, mcache, cbVars, embVars, explVars, pureVars>>

\* line 222: the get of the job has answered; suspended in the get of the
\* resume
PairGetJob(c) ==
    /\ pair.calls[c].pc = "get_job"
    /\ PairGoOn(c, Logged([pair.calls[c] EXCEPT
                              !.pc = "get_resume",
                              !.job = SessionGet(pair.store, "job", @)],
                          "get", "job"), pair.store)
    /\ UNCHANGED <<run, db, mcache, cbVars, embVars, explVars, pureVars>>

\* lines 223-231: the get of the resume has answered; None is returned
\* when either is missing; the job's embedding is generated when it is
\* missing
PairGetResume(c) ==
    /\ pair.calls[c].pc = "get_resume"
    /\ LET call == Logged([pair.calls[c] EXCEPT
                              !.resume =
                                  SessionGet(pair.store, "resume", @)],
                          "get", "resume")
       IN  IF ~call.job.found \/ ~call.resume.found
           THEN PairReturn(c, call, ReturnedNone, pair.store)
           ELSE IF NeedsEmbedding(call.job.embedding)
           THEN PairGoOn(c, Generating(call, "job"), pair.store)
           ELSE AfterJob(c, call, pair.store)
    /\ UNCHANGED <<run, db, mcache, cbVars, embVars, explVars, pureVars>>

\* an operation that generates the embedding of an entity and stores it is
\* called on its own: generate_job_embedding (line 83),
\* generate_resume_embedding (117), batch_generate_resume_embeddings for
\* the resume (154), update_job with a new title, description or
\* requirements (jobs.py:266) and process_resume_content (resumes.py:373).
\* Each begins with a get of the entity and is suspended in it.  (update_job
\* first writes the fields it was given, jobs.py:293; that UPDATE changes
\* neither the embedding nor whether the row is there.)
WriteEmbedding(c, op) ==
    /\ pair.calls[c].pc = "idle"
    /\ PairGoOn(c, Generating([IdlePairCall EXCEPT
                                  !.op = op,
                                  !.resume_id = pair.store.resume_id],
                              IF op \in {"generate_job_embedding",
                                         "update_job"}
                              THEN "job" ELSE "resume"),
                pair.store)
    /\ UNCHANGED <<run, db, mcache, cbVars, embVars, explVars, pureVars>>

\* the get of the entity inside the operation has answered (lines 90, 125,
\* 168; jobs.py:276; resumes.py:380).  Without the row update_job raises
\* 404 and the others give up (lines 91-93, 126-128, 172-175;
\* resumes.py:382-384); with it the call is suspended in the embedding
\* service
PairEntityGet(c) ==
    /\ pair.calls[c].pc = "entity_get"
    /\ LET call == pair.calls[c]
       IN  IF ~RowOf(pair.store, call.entity).found
           THEN IF call.op = "update_job"
                THEN PairReturn(c, call, Raised, pair.store)
                ELSE EmbeddingDone(c, call, FALSE, pair.store)
           ELSE PairGoOn(c, Logged([call EXCEPT !.pc = "generate"],
                                   "generate", call.entity), pair.store)
    /\ UNCHANGED <<run, db, mcache, cbVars, embVars, explVars, pureVars>>

\* the embedding service has answered (lines 101, 136, 187; jobs.py:306;
\* resumes.py:408): with a vector update_embedding (mark_as_processed) is
\* called and the call is suspended in the SELECT of BaseRepository.update;
\* an exception is caught (lines 113-115, 149-151, 200-204; jobs.py:308;
\* resumes.py:422) and nothing is stored
PairGenerate(c, outcome) ==
    /\ pair.calls[c].pc = "generate"
    /\ LET call == IF /\ pair.calls[c].op = "calculate_comprehensive_match"
                      /\ c \in ObservedCalls
                   THEN [pair.calls[c] EXCEPT
                            !.generated = Append(@, <<pair.calls[c].entity,
                                                     outcome>>)]
                   ELSE pair.calls[c]
       IN  IF outcome = "returned"
           THEN PairGoOn(c, Logged([call EXCEPT !.pc = "update_select",
                                                !.value = "vec"],
                                   "update_embedding", call.entity),
                         pair.store)
           ELSE EmbeddingDone(c, call, FALSE, pair.store)
    /\ UNCHANGED <<run, db, mcache, cbVars, embVars, explVars, pureVars>>

\* BaseRepository.update, lines 55-57: the SELECT has answered; without
\* the row update returns None and update_embedding False, with it the
\* call is suspended in the UPDATE
PairUpdateSelect(c) ==
    /\ pair.calls[c].pc = "update_select"
    /\ LET call == pair.calls[c]
       IN  IF ~RowOf(pair.store, call.entity).found
           THEN EmbeddingDone(c, call, FALSE, pair.store)
           ELSE PairGoOn(c, [call EXCEPT !.pc = "update_execute"],
                         pair.store)
    /\ UNCHANGED <<run, db, mcache, cbVars, embVars, explVars, pureVars>>

\* BaseRepository.update, lines 60-64: the UPDATE has answered; it met the
\* row when the row is there, the session has set the vector in the object
\* it holds, and the call is suspended in the COMMIT; or the statement
\* raised (the exception is caught as above)
PairUpdateExecute(c, outcome) ==
    /\ pair.calls[c].pc = "update_execute"
    /\ LET call == pair.calls[c]
       IN  IF outcome = "done"
           THEN PairGoOn(c, [Synchronized(call) EXCEPT
                                !.pc = "update_commit",
                                !.rowcount =
                                    IF RowOf(pair.store, call.entity).found
                                    THEN 1 ELSE 0], pair.store)
           ELSE EmbeddingDone(c, [call EXCEPT
                                     !.session = IF outcome = "aborted"
                                                 THEN "aborted" ELSE @],
                              FALSE, pair.store)
    /\ UNCHANGED <<run, db, mcache, cbVars, embVars, explVars, pureVars>>

\* BaseRepository.update, line 65: the COMMIT has answered; the vector is
\* stored in the row the UPDATE met, and the call is suspended in the get
\* of line 68; or the COMMIT raised and nothing is stored
PairUpdateCommit(c, outcome) ==
    /\ pair.calls[c].pc = "update_commit"
    /\ LET call == pair.calls[c]
       IN  IF outcome = "done"
           THEN PairGoOn(c, [call EXCEPT !.pc = "update_get", !.rowcount = 0],
                         Updated(pair.store, call.entity, call.rowcount,
                                 call.value))
           ELSE EmbeddingDone(c, [call EXCEPT !.rowcount = 0,
                                              !.session = "aborted"],
                              FALSE, pair.store)
    /\ UNCHANGED <<run, db, mcache, cbVars, embVars, explVars, pureVars>>

\* BaseRepository.update, line 68: the row is looked up once more and the
\* object returned; update_embedding is True when there is one
\* (job.py:172, resume.py:169)
PairUpdateGet(c) ==
    /\ pair.calls[c].pc = "update_get"
    /\ EmbeddingDone(c, pair.calls[c],
                     RowOf(pair.store, pair.calls[c].entity).found,
                     pair.store)
    /\ UNCHANGED <<run, db, mcache, cbVars, embVars, explVars, pureVars>>

\* lines 232 and 236: the get that is to refresh the entity has answered.
\* It raises in a session that takes no statement (caught at line 298,
\* None is returned); it gives None for a row that has gone; otherwise it
\* gives the object the session holds, whose embedding is the one the
\* session loaded or the one the call's own UPDATE has set
PairRefresh(c) ==
    /\ pair.calls[c].pc = "reget"
    /\ LET call == Logged(pair.calls[c], "get", pair.calls[c].entity)
       IN  IF call.session = "aborted"
           THEN PairReturn(c, call, ReturnedNone, pair.store)
           ELSE AfterJob(c, IF call.entity = "job"
                            THEN [call EXCEPT
                                     !.job = SessionGet(pair.store, "job", @)]
                            ELSE [call EXCEPT
                                     !.resume =
                                         SessionGet(pair.store, "resume", @)],
                         pair.store)
    /\ UNCHANGED <<run, db, mcache, cbVars, embVars, explVars, pureVars>>

\* lines 248-296: calculate_match_score and analyze_skill_gaps have
\* answered with the analysis a; the ComprehensiveMatch is returned
PairSimilarity(c, a) ==
    /\ pair.calls[c].pc = "similarity"
    /\ LET call == Logged(pair.calls[c], "similarity", "pair")
       IN  PairReturn(c, call,
                      Returned(ComprehensiveMatch(1, call.resume_id, a)),
                      pair.store)
    /\ UNCHANGED <<run, db, mcache, cbVars, embVars, explVars, pureVars>>

\* bulk_update_embeddings of the job or the resume repository is called
\* with one entry, the entity and an embedding for it (job.py:95,
\* resume.py:131): suspended in its UPDATE
BulkUpdateEmbeddings(c, entity, embedding) ==
    /\ pair.calls[c].pc = "idle"
    /\ PairGoOn(c, [IdlePairCall EXCEPT
                       !.op = "bulk_update_embeddings",
                       !.pc = "bulk_execute",
                       !.entity = entity,
                       !.value = embedding,
                       !.resume_id = pair.store.resume_id], pair.store)
    /\ UNCHANGED <<run, db, mcache, cbVars, embVars, explVars, pureVars>>

\* job.py:98-102, resume.py:134-138: the UPDATE (a text statement) has
\* answered, having met the row when the row is there; suspended in the
\* COMMIT
PairBulkExecute(c) ==
    /\ pair.calls[c].pc = "bulk_execute"
    /\ PairGoOn(c, [pair.calls[c] EXCEPT
                       !.pc = "bulk_commit",
                       !.rowcount =
                           IF RowOf(pair.store, pair.calls[c].entity).found
                           THEN 1 ELSE 0], pair.store)
    /\ UNCHANGED <<run, db, mcache, cbVars, embVars, explVars, pureVars>>

\* job.py:103-104, resume.py:139-140: the COMMIT has answered; the
\* embedding is stored, whatever the row held, and True is returned
PairBulkCommit(c) ==
    /\ pair.calls[c].pc = "bulk_commit"
    /\ LET call == pair.calls[c]
       IN  PairReturn(c, [call EXCEPT !.rowcount = 0],
                      [kind |-> "true", match |-> NoMatch],
                      Updated(pair.store, call.entity, call.rowcount,
                              call.value))
    /\ UNCHANGED <<run, db, mcache, cbVars, embVars, explVars, pureVars>>

\* delete_resume is called (resumes.py:342): suspended in its get
DeleteResume(c) ==
    /\ pair.calls[c].pc = "idle"
    /\ PairGoOn(c, [IdlePairCall EXCEPT
                       !.op = "delete_resume", !.pc = "delete_get",
                       !.entity = "resume",
                       !.resume_id = pair.store.resume_id], pair.store)
    /\ UNCHANGED <<run, db, mcache, cbVars, embVars, explVars, pureVars>>

\* resumes.py:351-357: the get has answered; without the row 404 is
\* raised, with it the call is suspended in the DELETE
PairDeleteGet(c) ==
    /\ pair.calls[c].pc = "delete_get"
    /\ IF ~RowOf(pair.store, "resume").found
       THEN PairReturn(c, pair.calls[c], Raised, pair.store)
       ELSE PairGoOn(c, [pair.calls[c] EXCEPT !.pc = "delete_execute"],
                     pair.store)
    /\ UNCHANGED <<run, db, mcache, cbVars, embVars, explVars, pureVars>>

\* BaseRepository.delete, lines 72-74: the DELETE has answered, with the
\* number of rows it met; suspended in the COMMIT
PairDeleteExecute(c) ==
    /\ pair.calls[c].pc = "delete_execute"
    /\ PairGoOn(c, [pair.calls[c] EXCEPT
                       !.pc = "delete_commit",
                       !.rowcount = IF RowOf(pair.store, "resume").found
                                    THEN 1 ELSE 0], pair.store)
    /\ UNCHANGED <<run, db, mcache, cbVars, embVars, explVars, pureVars>>

\* BaseRepository.delete, lines 75-76, and resumes.py:364-370: the COMMIT
\* has answered and the row is gone; delete_resume answers with its
\* message, or raises 500 when the DELETE met no row
PairDeleteCommit(c) ==
    /\ pair.calls[c].pc = "delete_commit"
    /\ LET call == pair.calls[c]
       IN  PairReturn(c, [call EXCEPT !.rowcount = 0],
                      IF call.rowcount > 0
                      THEN [kind |-> "deleted", match |-> NoMatch]
                      ELSE Raised,
                      Deleted(pair.store, call.rowcount))
    /\ UNCHANGED <<run, db, mcache, cbVars, embVars, explVars, pureVars>>

PairResumes == {1}

\* the rows a call can meet: a row that is missing has no embedding
PairStores ==
    {store \in [job_found : BOOLEAN, resume_found : BOOLEAN,
                job_embedding : StoredEmbeddings,
                resume_embedding : StoredEmbeddings,
                resume_id : PairResumes] :
        /\ ~store.job_found => store.job_embedding = "none"
        /\ ~store.resume_found => store.resume_embedding = "none"}

InitPair ==
    /\ CircuitBreakerInit(EmbFailureThreshold, EmbRecoveryTimeout)
    /\ CallersIdle
    /\ EmbIdle
    /\ ExplIdle
    /\ PureIdle
    /\ run = [r \in Runs |-> IdleRun("none")]
    /\ db = <<>>
    /\ mcache = <<>>
    /\ \E store \in PairStores :
          pair = [store |-> store, call |-> NoPairCall,
                  calls |-> [c \in PairCalls |-> IdlePairCall]]

\* two calls are followed at a time: the first is a match request whose
\* embedding service and database may fail, the second is any of the
\* operations and meets an embedding service and a database that answer
\* (where the operation lets them)
NextPair ==
    \/ \E c \in PairCalls : MatchRequest(c)
    \/ \E c \in PairCalls : PairLoadJob(c)
    \/ \E c \in PairCalls : PairLoadResume(c)
    \/ \E c \in PairCalls : CalculateComprehensiveMatch(c)
    \/ \E c \in PairCalls : PairGetJob(c)
    \/ \E c \in PairCalls : PairGetResume(c)
    \/ \E op \in EmbeddingWriters : WriteEmbedding(2, op)
    \/ \E c \in PairCalls : PairEntityGet(c)
    \/ \E c \in PairCalls :
          /\ pair.calls[c].pc = "generate"
          /\ \E outcome \in GenerationOutcomesOf(pair.calls[c].op) :
                /\ (c = 2 /\ pair.calls[c].op # "update_job")
                   => outcome = "returned"
                /\ PairGenerate(c, outcome)
    \/ \E c \in PairCalls : PairUpdateSelect(c)
    \/ \E c \in PairCalls, outcome \in UpdateOutcomes :
          /\ c = 2 => outcome = "done"
          /\ PairUpdateExecute(c, outcome)
    \/ \E c \in PairCalls, outcome \in CommitOutcomes :
          /\ c = 2 => outcome = "done"
          /\ PairUpdateCommit(c, outcome)
    \/ \E c \in PairCalls : PairUpdateGet(c)
    \/ \E c \in PairCalls : PairRefresh(c)
    \/ \E c \in PairCalls :
          /\ pair.calls[c].pc = "similarity"
          /\ \E a \in AnalysesOf(pair.calls[c].resume_id) :
                PairSimilarity(c, a)
    \/ \E entity \in {"job", "resume"}, embedding \in StoredEmbeddings :
          BulkUpdateEmbeddings(2, entity, embedding)
    \/ PairBulkExecute(2)
    \/ PairBulkCommit(2)
    \/ DeleteResume(2)
    \/ PairDeleteGet(2)
    \/ PairDeleteExecute(2)
    \/ PairDeleteCommit(2)

SpecPair == InitPair /\ [][NextPair]_vars

(***************************************************************************)
(* ExplanationService (explanation_service.py) behind                      *)
(* explanation_circuit_breaker (error_handler.py:453-457).  An explanation *)
(* is a tuple; <<>> stands for None and for "" alike (both are falsy at    *)
(* lines 270 and 277).  A call is followed from one suspension (a Redis    *)
(* command, the LLM request) to the next.                                  *)
(***************************************************************************)
ExplFailureThreshold == 5
ExplRecoveryTimeout == 120
ExplMaxRetries == 2
ExplHashPrefix == 500

\* the exceptions _generate_llm_explanation asks retry_with_backoff to retry
ExplRetryExceptions ==
    {"ExplanationServiceError", "ExternalServiceError", "RateLimitError"}
\* expected_exception of explanation_circuit_breaker
ExplExpectedExceptions ==
    {"ExplanationServiceError", "ExternalServiceError", "RateLimitError"}

\* f"{x:.1f}" of a percentage given in hundredths, as tenths: the float's
\* exact value to the nearest tenth (72.25 gives 72.2, 72.35 gives 72.3)
OneDecimal(hundredths) == FloatDecimal(Double(hundredths, 100), 10)

\* seq[:n]
Prefix(seq, n) == SubSeq(seq, 1, Min(Len(seq), n))

\* GracefulDegradation.template_explanation_fallback
TemplateExplanationFallback(match_score, matched_skills, missing_skills) ==
    LET assessment == IF match_score >= 8000 THEN "Excellent match"
                      ELSE IF match_score >= 6000 THEN "Good match"
                      ELSE IF match_score >= 4000 THEN "Moderate match"
                      ELSE "Limited match"
        recommendation ==
            IF match_score >= 8000 THEN "Highly recommended"
            ELSE IF match_score >= 6000
            THEN "Recommended with minor considerations"
            ELSE IF match_score >= 4000
            THEN "Consider with skill development plan"
            ELSE "Not recommended for this role"
    IN  <<"template", assessment, OneDecimal(match_score),
          IF matched_skills # <<>> THEN Prefix(matched_skills, 3)
          ELSE <<"Basic qualifications present">>,
          IF missing_skills # <<>> THEN Prefix(missing_skills, 3)
          ELSE <<"No significant gaps identified">>,
          recommendation>>

\* what the LLM answers when it answers with text
LlmText(variant) == <<"llm", variant>>

\* str(n) of a natural number, as its characters
RECURSIVE DecimalDigits(_)
DecimalDigits(n) ==
    LET digit == <<"0", "1", "2", "3", "4", "5", "6", "7", "8", "9">>
    IN  IF n < 10 THEN <<digit[n + 1]>>
        ELSE Append(DecimalDigits(n \div 10), digit[(n % 10) + 1])

\* str(x) of a float that is a number of hundredths: 85.12, 10.5, 10.0
FloatRepr(hundredths) ==
    LET whole == DecimalDigits(hundredths \div 100)
        places == DecimalDigits(100 + (hundredths % 100))
    IN  whole \o <<".", places[2]>>
        \o (IF places[3] = "0" THEN <<>> ELSE <<places[3]>>)

\* _get_explanation_hash (line 78): the MD5 of one string, the two
\* prefixes, the score and the JSON text written one after the other with
\* nothing between them.  The key is that string, as its characters; the
\* JSON text, which no other part can run into, is kept as one element
ExplanationHash(job_desc, resume, match_score, skill_analysis) ==
    Prefix(job_desc, ExplHashPrefix) \o Prefix(resume, ExplHashPrefix)
    \o FloatRepr(match_score) \o <<skill_analysis>>

\* _get_cached_explanation once the Redis read is over: None on a failed
\* read and on a missing key
GetCachedExplanation(cache, cache_key, read_ok) ==
    IF read_ok /\ cache_key \in DOMAIN cache THEN cache[cache_key] ELSE <<>>

\* _cache_explanation once setex is over: nothing is stored on a failure
CacheExplanation(cache, cache_key, explanation, write_ok) ==
    IF write_ok
    THEN [k \in DOMAIN cache \cup {cache_key} |->
             IF k = cache_key THEN explanation ELSE cache[k]]
    ELSE cache

\* _call_anthropic_api: the exception one call raises ("none": it returned)
CallAnthropicApi(kind) ==
    IF kind \in {"ok", "empty"} THEN "none"
    ELSE HandleAiServiceError(kind, "explanation")

\* the body of _generate_llm_explanation (lines 147-167): the text, or None
\* without a client and after any exception
\* (mutant: the exception that ends the retries leaves the body)
GenerateLlmExplanation_Propagating(client, kinds, variant) ==
    LET excs == [k \in 1..(ExplMaxRetries + 1) |-> CallAnthropicApi(kinds[k])]
        r == RetryWithBackoff(excs, 0, ExplMaxRetries, ExplRetryExceptions)
    IN  IF ~client THEN [ret |-> <<>>, exc |-> "none", llm_calls |-> 0]
        ELSE IF r.exc = "none"
        THEN [ret |-> IF kinds[r.calls] = "ok" THEN LlmText(variant) ELSE <<>>,
              exc |-> "none", llm_calls |-> r.calls]
        ELSE [ret |-> <<>>, exc |-> r.exc, llm_calls |-> r.calls]

GenerateLlmExplanation(client, kinds, variant) ==
    LET excs == [k \in 1..(ExplMaxRetries + 1) |-> CallAnthropicApi(kinds[k])]
        r == RetryWithBackoff(excs, 0, ExplMaxRetries, ExplRetryExceptions)
    IN  IF ~client THEN [ret |-> <<>>, exc |-> "none", llm_calls |-> 0]
        ELSE IF r.exc = "none"
        THEN [ret |-> IF kinds[r.calls] = "ok" THEN LlmText(variant) ELSE <<>>,
              exc |-> "none", llm_calls |-> r.calls]
        ELSE [ret |-> <<>>, exc |-> "none", llm_calls |-> r.calls]

\* the body when the LLM has answered the attempts made so far as kinds
\* says; llm_calls beyond their number: retry_with_backoff goes on
LlmSoFar(client, kinds, variant) ==
    GenerateLlmExplanation(client,
        [k \in 1..(ExplMaxRetries + 1) |->
            IF k <= Len(kinds) THEN kinds[k] ELSE "ok"], variant)

\* the ExplanationRequests of the batches: skill_analysis['match_percentage']
\* is handed to SkillAnalysis, whose field accepts 0..100
ExplRequests ==
    {[job_description |-> <<"d">>, resume_content |-> <<"r">>,
      match_score |-> 8512,
      skill_analysis |-> [matched_skills |-> <<"python">>,
                          missing_skills |-> <<"go">>,
                          match_percentage |-> 7500]],
     [job_description |-> <<"d">>, resume_content |-> <<"r">>,
      match_score |-> 4567,
      skill_analysis |-> [matched_skills |-> <<>>,
                          missing_skills |-> <<"python">>,
                          match_percentage |-> 15000]]}

\* generate_structured_explanation after generate_explanation has ended:
\* the response; when anything in its try block raises (generate_
\* explanation, or the SkillAnalysis validation at line 374), the handler
\* builds a minimal response with SkillAnalysis(matched_skills=...,
\* missing_skills=...), which lacks the required match_percentage, so the
\* handler raises a ValidationError itself
StructuredExplanation(request, outcome) ==
    LET match_percentage ==
            IF "match_percentage" \in DOMAIN request.skill_analysis
            THEN request.skill_analysis.match_percentage ELSE 0
    IN  IF outcome = "returned" /\ match_percentage >= 0
           /\ match_percentage <= 10000
        THEN [kind |-> "response", match_score |-> request.match_score,
              exc |-> "none"]
        ELSE [kind |-> "raised", match_score |-> 0, exc |-> "ValidationError"]

NoExplResult == [kind |-> "pending", match_score |-> 0, exc |-> "none"]
NoneResult == [kind |-> "none", match_score |-> 0, exc |-> "none"]

\* process_single_explanation, lines 447-454, for task i of batch xb whose
\* generate_explanation call ended with outcome: the response is counted
\* and returned, an exception is counted and None returned; the semaphore
\* is released
TaskDone(xb, i, outcome) ==
    LET result == StructuredExplanation(xb.explanations[i], outcome)
    IN  IF result.kind = "response"
        THEN [xb EXCEPT !.task[i] = "done", !.results[i] = result,
                        !.successful_count = @ + 1]
        ELSE [xb EXCEPT !.task[i] = "done", !.results[i] = NoneResult,
                        !.failed_count = @ + 1]

\* what a generate_explanation call leaves in expl_last when it ends
ExplEnded(call, outcome, exc, ret) ==
    [op |-> "generate_explanation", input |-> call.input,
     env |-> IF call.path \in {"cache", "rejected"} THEN <<>>
             ELSE <<call.client, call.kinds>>,
     outcome |-> outcome, exc |-> exc, ret |-> ret,
     llm_calls |-> Len(call.kinds), path |-> call.path]

\* generate_explanation ends; called by task call.task of the batch xb
\* (0: called directly), the task goes on to its own end in the same step
ExplReturn(c, call, outcome, exc, ret, xb) ==
    /\ expl_last' = ExplEnded(call, outcome, exc, ret)
    /\ xcall' = [xcall EXCEPT ![c] = IdleExplCall]
    /\ xbatch' = IF call.task = 0 THEN xb ELSE TaskDone(xb, call.task, outcome)

\* the wrapper after the body of _generate_llm_explanation has ended as b
\* says (error_handler.py:56-61), then generate_explanation lines 276-288
\* up to the cache write: the template replaces a falsy result; without a
\* Redis client nothing is written and the call returns; cur is the
\* breaker's state when the body ended
AfterLlm(c, call, b, cur, xb) ==
    /\ expl_cache' = expl_cache
    /\ IF b.exc = "none"
       THEN /\ OnSuccess
            /\ LET explanation ==
                       IF b.ret # <<>> THEN b.ret
                       ELSE TemplateExplanationFallback(
                                call.input.match_score,
                                call.input.skill_analysis.matched_skills,
                                call.input.skill_analysis.missing_skills)
                   call2 == [call EXCEPT !.explanation = explanation,
                                         !.path = IF b.ret # <<>> THEN "llm"
                                                  ELSE "template"]
               IN  IF call.redis
                   THEN /\ xcall' = [xcall EXCEPT ![c] =
                                        [call2 EXCEPT !.pc = "write"]]
                        /\ expl_last' = NoExplain
                        /\ xbatch' = xb
                   ELSE ExplReturn(c, call2, "returned", "none", explanation,
                                   xb)
       ELSE /\ ExplReturn(c, [call EXCEPT !.path = "llm_error"], "raised",
                          b.exc, <<>>, xb)
            /\ IF b.exc \in ExplExpectedExceptions
               THEN /\ failure_count < ExplMaxFailures
                    /\ failure_count' = failure_count + 1
                    /\ last_failure_time' = now
                    /\ state' = StateAfterFailure(failure_count + 1, cur)
               ELSE /\ state' = cur
                    /\ UNCHANGED <<failure_count, last_failure_time>>

\* generate_explanation from line 270 on, the cache lookup having given
\* cached_explanation: a hit is returned; on a miss the wrapper of
\* _generate_llm_explanation turns the call away (ExternalServiceError
\* leaves generate_explanation) or lets it in (error_handler.py:45-53);
\* without an Anthropic client the body returns None at once, with one the
\* call is suspended in the LLM request
AfterLookup(c, call, cached_explanation, xb) ==
    LET rejected == state = "OPEN" /\ ~ShouldAttemptReset
        entered == IF state = "OPEN" THEN "HALF_OPEN" ELSE state
    IN  IF cached_explanation # <<>>
        THEN /\ ExplReturn(c, [call EXCEPT !.path = "cache"], "returned",
                           "none", cached_explanation, xb)
             /\ UNCHANGED <<expl_cache, failure_count, last_failure_time,
                            state>>
        ELSE IF rejected
        THEN /\ ExplReturn(c, [call EXCEPT !.path = "rejected"], "raised",
                           "ExternalServiceError", <<>>, xb)
             /\ UNCHANGED <<expl_cache, failure_count, last_failure_time,
                            state>>
        ELSE IF ~call.client
        THEN AfterLlm(c, call, LlmSoFar(FALSE, <<>>, 0), entered, xb)
        ELSE /\ xcall' = [xcall EXCEPT ![c] = [call EXCEPT !.pc = "llm"]]
             /\ expl_last' = NoExplain
             /\ xbatch' = xb
             /\ state' = entered
             /\ UNCHANGED <<expl_cache, failure_count, last_failure_time>>

\* generate_explanation up to its first suspension (lines 268-269): with a
\* Redis client the call is suspended in the cache read; without one
\* _get_cached_explanation returns None at once and the call goes on
ExplBegin(c, input, client, redis, task, xb) ==
    LET call == [IdleExplCall EXCEPT !.op = "generate_explanation",
                                     !.input = input, !.client = client,
                                     !.redis = redis, !.task = task]
    IN  IF redis
        THEN /\ xcall' = [xcall EXCEPT ![c] = [call EXCEPT !.pc = "read"]]
             /\ expl_last' = NoExplain
             /\ xbatch' = xb
             /\ UNCHANGED <<expl_cache, failure_count, last_failure_time,
                            state>>
        ELSE AfterLookup(c, call, <<>>, xb)

\* a direct call of generate_explanation begins
GenerateExplanation(c, input, client, redis) ==
    /\ xcall[c].pc = "idle"
    /\ ExplBegin(c, input, client, redis, 0, xbatch)
    /\ UNCHANGED <<failure_threshold, recovery_timeout, now, cpc, trial, cres,
                   consec, streak, arrivals, rejections, invocations, embVars,
                   matchVars, pureVars>>

\* the cache read of a call completes (_get_cached_explanation, line 87)
GenerateExplanationRead(c, read_ok) ==
    /\ xcall[c].pc = "read"
    /\ LET call == xcall[c]
           cache_key == ExplanationHash(call.input.job_desc, call.input.resume,
                                        call.input.match_score,
                                        call.input.skill_analysis)
       IN  AfterLookup(c, call,
                       GetCachedExplanation(expl_cache, cache_key, read_ok),
                       xbatch)
    /\ UNCHANGED <<failure_threshold, recovery_timeout, now, cpc, trial, cres,
                   consec, streak, arrivals, rejections, invocations, embVars,
                   matchVars, pureVars>>

\* one LLM request of a call ends as kind says (_call_anthropic_api inside
\* retry_with_backoff, lines 156-162): the call sleeps and asks again, or
\* the body of _generate_llm_explanation ends
GenerateExplanationLlm(c, kind, variant) ==
    /\ xcall[c].pc = "llm"
    /\ LET call == [xcall[c] EXCEPT !.kinds = Append(@, kind)]
           b == LlmSoFar(TRUE, call.kinds, variant)
       IN  IF b.llm_calls > Len(call.kinds)
           THEN /\ xcall' = [xcall EXCEPT ![c] = call]
                /\ expl_last' = NoExplain
                /\ UNCHANGED <<expl_cache, xbatch, failure_count,
                               last_failure_time, state>>
           ELSE AfterLlm(c, call, b, state, xbatch)
    /\ UNCHANGED <<failure_threshold, recovery_timeout, now, cpc, trial, cres,
                   consec, streak, arrivals, rejections, invocations, embVars,
                   matchVars, pureVars>>

\* the cache write of a call completes (_cache_explanation, lines 102-108)
\* and the explanation is returned
GenerateExplanationWrite(c, write_ok) ==
    /\ xcall[c].pc = "write"
    /\ LET call == xcall[c]
           cache_key == ExplanationHash(call.input.job_desc, call.input.resume,
                                        call.input.match_score,
                                        call.input.skill_analysis)
       IN  /\ expl_cache' = CacheExplanation(expl_cache, cache_key,
                                             call.explanation, write_ok)
           /\ ExplReturn(c, call, "returned", "none", call.explanation, xbatch)
    /\ UNCHANGED <<cbVars, embVars, matchVars, pureVars>>

\* clear_cache (lines 542-555) with a Redis client: suspended in KEYS
ClearCache(c) ==
    /\ xcall[c].pc = "idle"
    /\ xcall' = [xcall EXCEPT ![c] =
                    [IdleExplCall EXCEPT !.op = "clear_cache", !.pc = "keys",
                                         !.redis = TRUE]]
    /\ expl_last' = NoExplain
    /\ UNCHANGED <<expl_cache, xbatch, cbVars, embVars, matchVars, pureVars>>

\* KEYS explanation:* has answered (line 548): with keys to delete the call
\* is suspended in DELETE; with none, or after a failure, it returns
ClearCacheKeys(c, read_ok) ==
    /\ xcall[c].pc = "keys"
    /\ xcall' = [xcall EXCEPT ![c] =
                    IF read_ok /\ DOMAIN expl_cache # {}
                    THEN [@ EXCEPT !.pc = "delete", !.keys = DOMAIN expl_cache]
                    ELSE IdleExplCall]
    /\ expl_last' = NoExplain
    /\ UNCHANGED <<expl_cache, xbatch, cbVars, embVars, matchVars, pureVars>>

\* DELETE of the keys found has answered (line 550)
ClearCacheDelete(c, write_ok) ==
    /\ xcall[c].pc = "delete"
    /\ expl_cache' = IF write_ok
                     THEN [k \in DOMAIN expl_cache \ xcall[c].keys |->
                              expl_cache[k]]
                     ELSE expl_cache
    /\ xcall' = [xcall EXCEPT ![c] = IdleExplCall]
    /\ expl_last' = NoExplain
    /\ UNCHANGED <<xbatch, cbVars, embVars, matchVars, pureVars>>

\* an explanation entry goes away: its TTL (cache_ttl = 3600 s, lines 35
\* and 104) ran out
ExplCacheExpire(key) ==
    /\ key \in DOMAIN expl_cache
    /\ expl_cache' = [k \in DOMAIN expl_cache \ {key} |-> expl_cache[k]]
    /\ expl_last' = NoExplain
    /\ UNCHANGED <<xcall, xbatch, cbVars, embVars, matchVars, pureVars>>

\* the inputs of generate_explanation; the first two give the same string
\* to hash, "dr45.67" and the JSON text
ExplInputs ==
    {[job_desc |-> <<"d">>, resume |-> <<"r", "4">>, match_score |-> 567,
      skill_analysis |-> [matched_skills |-> <<>>,
                          missing_skills |-> <<"python">>]],
     [job_desc |-> <<"d", "r">>, resume |-> <<>>, match_score |-> 4567,
      skill_analysis |-> [matched_skills |-> <<>>,
                          missing_skills |-> <<"python">>]],
     [job_desc |-> <<"d">>, resume |-> <<"r">>, match_score |-> 8512,
      skill_analysis |-> [matched_skills |-> <<"python", "sql", "aws", "docker">>,
                          missing_skills |-> <<"go">>]],
     [job_desc |-> <<"d">>, resume |-> <<"r">>, match_score |-> 7235,
      skill_analysis |-> [matched_skills |-> <<"python">>,
                          missing_skills |-> <<"sql", "aws", "docker", "go">>]]}

\* what the LLM does in the attempts of one call: it fails the first n
\* times in one way, then answers with text or with nothing
LlmFailures == {"rate_limit", "auth", "other"}

LlmAnswers(kinds) ==
    IF kinds = <<>> THEN LlmFailures \cup {"ok", "empty"}
    ELSE {kinds[1], "ok", "empty"}

\* the direct calls the model follows at a time, and what each asks for:
\* the first any input with any service, the second the second input, with
\* both clients and an LLM that answers (another text than it gives the
\* first)
DirectCalls == {1, 2}
ExplInputsOf(c) ==
    IF c = 1 THEN ExplInputs
    ELSE {input \in ExplInputs : input.match_score = 4567}
ExplClientsOf(c) ==
    IF c = 1 THEN {<<TRUE, TRUE>>, <<FALSE, TRUE>>, <<TRUE, FALSE>>}
    ELSE {<<TRUE, TRUE>>}
LlmAnswersOf(c, kinds) == IF c = 1 THEN LlmAnswers(kinds) ELSE {"ok"}

InitExplain ==
    /\ CircuitBreakerInit(ExplFailureThreshold, ExplRecoveryTimeout)
    /\ CallersIdle
    /\ EmbIdle
    /\ ExplIdle
    /\ PureIdle
    /\ MatchIdle

NextExplain ==
    \/ \E c \in DirectCalls :
          /\ xcall[c].pc = "idle"
          /\ \E input \in ExplInputsOf(c), env \in ExplClientsOf(c) :
                GenerateExplanation(c, input, env[1], env[2])
    \/ \E c \in DirectCalls, read_ok \in BOOLEAN :
          GenerateExplanationRead(c, read_ok)
    \/ \E c \in DirectCalls :
          /\ xcall[c].pc = "llm"
          /\ \E kind \in LlmAnswersOf(c, xcall[c].kinds) :
                GenerateExplanationLlm(c, kind, c)
    \/ \E c \in DirectCalls, write_ok \in BOOLEAN :
          GenerateExplanationWrite(c, write_ok)
    \/ ClearCache(2)
    \/ \E read_ok \in BOOLEAN : ClearCacheKeys(2, read_ok)
    \/ \E write_ok \in BOOLEAN : ClearCacheDelete(2, write_ok)
    \/ \E key \in DOMAIN expl_cache : ExplCacheExpire(key)

SpecExplain == InitExplain /\ [][NextExplain]_vars

(***************************************************************************)
(* RetryHandler.retry_with_backoff called on its own                       *)
(* (error_handler.py:89-137).                                              *)
(***************************************************************************)
\* what an invocation of func can do: return ("none") or raise
RetryOutcomes == {"none", "RuntimeError", "OSError", "ValueError"}

\* the tuples a caller can pass as `exceptions`
RetryExceptionSets ==
    {{"RuntimeError", "OSError"}, {"OSError"},
     {"RuntimeError", "OSError", "ValueError"}}

\* a call about to be made: the arguments chosen, no outcome yet
Pending(op, args) == [op |-> op, args |-> args, out |-> <<>>]

\* the calls of retry_with_backoff(func, max_retries, exceptions=...) that
\* are made, where the k-th invocation of func does excs[k]
RetryCalls ==
    UNION {[excs : [1..(max_retries + 1) -> RetryOutcomes],
            max_retries : {max_retries},
            exceptions : RetryExceptionSets] :
              max_retries \in 0..MaxRetriesArg}

\* the call runs
RetryCall ==
    /\ pure_last.op = "retry_with_backoff"
    /\ pure_last.out = <<>>
    /\ pure_last' = [pure_last EXCEPT !.out =
                        RetryWithBackoff(pure_last.args.excs, 0,
                                         pure_last.args.max_retries,
                                         pure_last.args.exceptions)]
    /\ UNCHANGED <<cbVars, embVars, matchVars, explVars>>

InitRetry ==
    /\ CircuitBreakerInit(EmbFailureThreshold, EmbRecoveryTimeout)
    /\ CallersIdle
    /\ EmbIdle
    /\ ExplIdle
    /\ MatchIdle
    /\ \E args \in RetryCalls : pure_last = Pending("retry_with_backoff", args)

NextRetry == RetryCall

SpecRetry == InitRetry /\ [][NextRetry]_vars

(***************************************************************************)
(* ExplanationService.generate_batch_explanations                          *)
(* (explanation_service.py:435-473) over generate_structured_explanation   *)
(* (359-433).  Task i of the batch is call i of generate_explanation.      *)
(***************************************************************************)
DefaultMaxConcurrent == 5

\* asyncio.Semaphore(value).acquire does not block while the count is
\* positive
\* (mutant: no limit)
SemaphoreFree_Unbounded(in_flight, value) == TRUE

SemaphoreFree(in_flight, value) == in_flight < value

XInFlight == {i \in DOMAIN xbatch.task : xbatch.task[i] = "running"}

\* lines 437-457: the counters are zeroed, the semaphore is made, one task
\* per request is handed to the gather; client and redis say which clients
\* the service has
BatchExplBegin(explanations, max_concurrent, client, redis) ==
    /\ xbatch.pc = "idle"
    /\ xbatch' = [NoBatchRun EXCEPT
                    !.pc = "gather",
                    !.explanations = explanations,
                    !.max_concurrent = max_concurrent,
                    !.client = client, !.redis = redis,
                    !.task = [i \in DOMAIN explanations |-> "pending"],
                    !.results = [i \in DOMAIN explanations |-> NoExplResult]]
    /\ expl_last' = NoExplain
    /\ UNCHANGED <<expl_cache, xcall, cbVars, embVars, matchVars, pureVars>>

\* process_single_explanation enters `async with semaphore` and calls
\* generate_structured_explanation, which calls generate_explanation with
\* the fields of the request (lines 363-368)
XTaskAcquire(i) ==
    /\ xbatch.pc = "gather"
    /\ i \in DOMAIN xbatch.task
    /\ xbatch.task[i] = "pending"
    /\ \A j \in 1..(i - 1) : xbatch.task[j] # "pending"
    /\ SemaphoreFree(Cardinality(XInFlight), xbatch.max_concurrent)
    /\ LET request == xbatch.explanations[i]
           input == [job_desc |-> request.job_description,
                     resume |-> request.resume_content,
                     match_score |-> request.match_score,
                     skill_analysis |-> request.skill_analysis]
           running == [xbatch EXCEPT
                         !.task[i] = "running",
                         !.peak = IF Cardinality(XInFlight) + 1 > @
                                  THEN Cardinality(XInFlight) + 1 ELSE @]
       IN  ExplBegin(i, input, xbatch.client, xbatch.redis, i, running)
    /\ UNCHANGED <<failure_threshold, recovery_timeout, now, cpc, trial, cres,
                   consec, streak, arrivals, rejections, invocations, embVars,
                   matchVars, pureVars>>

\* lines 459-473: the ExplanationResponses of the gather's list, in task
\* order, and the two counters
BatchExplDone ==
    /\ xbatch.pc = "gather"
    /\ \A i \in DOMAIN xbatch.task : xbatch.task[i] = "done"
    /\ LET IsResponse(result) == result.kind = "response"
       IN  xbatch' = [xbatch EXCEPT
                        !.pc = "done",
                        !.response =
                            <<[explanations |->
                                   SelectSeq(xbatch.results, IsResponse),
                               successful_count |-> xbatch.successful_count,
                               failed_count |-> xbatch.failed_count]>>]
    /\ expl_last' = NoExplain
    /\ UNCHANGED <<expl_cache, xcall, cbVars, embVars, matchVars, pureVars>>

\* the batches: BatchExplanationRequest takes max_concurrent from 1..20,
\* 5 when it is not given.  Every batch of up to two requests, with any
\* clients; and the batch of MaxExplBatch requests of which every third one
\* fails, with both clients
ExplBatches ==
    [explanations : UNION {[1..n -> ExplRequests] : n \in 0..2},
     max_concurrent : {1, 2, DefaultMaxConcurrent},
     client : BOOLEAN, redis : BOOLEAN]
    \cup
    [explanations :
         {[i \in 1..MaxExplBatch |->
              CHOOSE request \in ExplRequests :
                 (request.skill_analysis.match_percentage > 10000)
                 <=> (i % 3 = 0)]},
     max_concurrent : {2, DefaultMaxConcurrent},
     client : {TRUE}, redis : {TRUE}]

InitExplBatch ==
    /\ CircuitBreakerInit(ExplFailureThreshold, ExplRecoveryTimeout)
    /\ CallersIdle
    /\ EmbIdle
    /\ ExplIdle
    /\ PureIdle
    /\ MatchIdle

\* the Redis commands of the first two tasks can fail and the LLM can fail
\* the first task
NextExplBatch ==
    \/ /\ xbatch.pc = "idle"
       /\ \E b \in ExplBatches :
             BatchExplBegin(b.explanations, b.max_concurrent, b.client,
                            b.redis)
    \/ \E i \in ExplCalls : XTaskAcquire(i)
    \/ \E i \in ExplCalls, read_ok \in BOOLEAN :
          /\ i > 2 => read_ok
          /\ GenerateExplanationRead(i, read_ok)
    \/ \E i \in ExplCalls :
          /\ xcall[i].pc = "llm"
          /\ \E kind \in LlmAnswersOf(i, xcall[i].kinds) :
                GenerateExplanationLlm(i, kind, 1)
    \/ \E i \in ExplCalls, write_ok \in BOOLEAN :
          /\ i > 2 => write_ok
          /\ GenerateExplanationWrite(i, write_ok)
    \/ BatchExplDone

SpecExplBatch == InitExplBatch /\ [][NextExplBatch]_vars

(***************************************************************************)
(* SkillExtractionService.compare_skills                                   *)
(* (skill_extraction_service.py:181-190, 352-402).  The three skill lists  *)
(* come from list(set), whose order Python leaves open: they are sets here.*)
(***************************************************************************)
\* the spellings the skill lists of the model are made of
JobSpellings == {"Python", "sql", "aws", " JS "}
ResumeSpellings == {"py", "aws", "docker", "javascript"}

\* skill.lower().strip()
LowerStrip(skill) ==
    IF skill = "Python" THEN "python"
    ELSE IF skill = " JS " THEN "js"
    ELSE skill

\* self.skill_synonyms, the entries the spellings above meet
skill_synonyms ==
    [canonical \in {"javascript", "python"} |->
        IF canonical = "javascript" THEN {"js", "ecmascript"} ELSE {"py"}]

\* _normalize_skill
NormalizeSkill(raw) ==
    LET skill == LowerStrip(raw)
        hits == {canonical \in DOMAIN skill_synonyms :
                    skill \in skill_synonyms[canonical] \/ skill = canonical}
    IN  IF hits # {} THEN CHOOSE canonical \in hits : TRUE ELSE skill

\* {self._normalize_skill(skill) for skill in skills}
NormalizedSet(skills) == {NormalizeSkill(skills[i]) : i \in DOMAIN skills}

\* lines 375 and 390: round((matched / total) * 100, 2) in binary floats,
\* in hundredths (23 of 160 is 14.374999999999998 and gives 14.37)
MatchPercentage(matched, total) ==
    FloatDecimal(FloatMul(Double(matched, total), Double(100, 1)), 100)

\* (mutant: the percentage is taken over the resume's skills)
CompareSkills_OverResume(job_skills, resume_skills) ==
    LET job_skills_normalized == NormalizedSet(job_skills)
        resume_skills_normalized == NormalizedSet(resume_skills)
        matched_skills == job_skills_normalized \cap resume_skills_normalized
    IN  [matched_skills |-> matched_skills,
         missing_skills |-> job_skills_normalized \ resume_skills_normalized,
         additional_skills |-> resume_skills_normalized \ job_skills_normalized,
         match_percentage |->
             IF resume_skills_normalized # {}
             THEN MatchPercentage(Cardinality(matched_skills),
                                  Cardinality(resume_skills_normalized))
             ELSE 0]

\* compare_skills; match_percentage in hundredths
CompareSkills(job_skills, resume_skills) ==
    LET job_skills_normalized == NormalizedSet(job_skills)
        resume_skills_normalized == NormalizedSet(resume_skills)
        matched_skills == job_skills_normalized \cap resume_skills_normalized
    IN  [matched_skills |-> matched_skills,
         missing_skills |-> job_skills_normalized \ resume_skills_normalized,
         additional_skills |-> resume_skills_normalized \ job_skills_normalized,
         match_percentage |->
             IF job_skills_normalized # {}
             THEN MatchPercentage(Cardinality(matched_skills),
                                  Cardinality(job_skills_normalized))
             ELSE 0]

SkillLists(spellings) == UNION {[1..n -> spellings] : n \in 0..MaxSkills}

\* the skills of a job that asks for 160 distinct ones, none of them with a
\* synonym; a resume has the first so many of them
ManySkills ==
    <<
      "s001", "s002", "s003", "s004", "s005", "s006", "s007", "s008",
      "s009", "s010", "s011", "s012", "s013", "s014", "s015", "s016",
      "s017", "s018", "s019", "s020", "s021", "s022", "s023", "s024",
      "s025", "s026", "s027", "s028", "s029", "s030", "s031", "s032",
      "s033", "s034", "s035", "s036", "s037", "s038", "s039", "s040",
      "s041", "s042", "s043", "s044", "s045", "s046", "s047", "s048",
      "s049", "s050", "s051", "s052", "s053", "s054", "s055", "s056",
      "s057", "s058", "s059", "s060", "s061", "s062", "s063", "s064",
      "s065", "s066", "s067", "s068", "s069", "s070", "s071", "s072",
      "s073", "s074", "s075", "s076", "s077", "s078", "s079", "s080",
      "s081", "s082", "s083", "s084", "s085", "s086", "s087", "s088",
      "s089", "s090", "s091", "s092", "s093", "s094", "s095", "s096",
      "s097", "s098", "s099", "s100", "s101", "s102", "s103", "s104",
      "s105", "s106", "s107", "s108", "s109", "s110", "s111", "s112",
      "s113", "s114", "s115", "s116", "s117", "s118", "s119", "s120",
      "s121", "s122", "s123", "s124", "s125", "s126", "s127", "s128",
      "s129", "s130", "s131", "s132", "s133", "s134", "s135", "s136",
      "s137", "s138", "s139", "s140", "s141", "s142", "s143", "s144",
      "s145", "s146", "s147", "s148", "s149", "s150", "s151", "s152",
      "s153", "s154", "s155", "s156", "s157", "s158", "s159", "s160" >>

\* the arguments of the calls the model makes: short lists of the spellings
\* above, and the long job with every resume that has some of its skills
SkillArguments ==
    [job_skills : SkillLists(JobSpellings),
     resume_skills : SkillLists(ResumeSpellings)]
    \cup {[job_skills |-> ManySkills,
            resume_skills |-> SubSeq(ManySkills, 1, n)] :
              n \in 0..Len(ManySkills)}

\* the call runs
CompareSkillsCall ==
    /\ pure_last.op = "compare_skills"
    /\ pure_last.out = <<>>
    /\ pure_last' = [pure_last EXCEPT !.out =
                        CompareSkills(pure_last.args.job_skills,
                                      pure_last.args.resume_skills)]
    /\ UNCHANGED <<cbVars, embVars, matchVars, explVars>>

InitSkills ==
    /\ CircuitBreakerInit(EmbFailureThreshold, EmbRecoveryTimeout)
    /\ CallersIdle
    /\ EmbIdle
    /\ ExplIdle
    /\ MatchIdle
    /\ \E args \in SkillArguments :
          pure_last = Pending("compare_skills", args)

NextSkills == CompareSkillsCall

SpecSkills == InitSkills /\ [][NextSkills]_vars

(***************************************************************************)
(* SimilarityService.calculate_cosine_similarity                           *)
(* (similarity_service.py:50-97).  An embedding argument is None or a list *)
(* of floats; a similarity is kept exactly, as dot / sqrt(sq1 * sq2).      *)
(***************************************************************************)
Components == {-1, 0, 2}

NoVector == [given |-> FALSE, v |-> <<>>]
Vector(v) == [given |-> TRUE, v |-> v]
Embeddings ==
    {NoVector} \cup {Vector(v) : v \in UNION {[1..n -> Components] : n \in 0..MaxDim}}

RECURSIVE Dot(_, _)
\* np.dot(vec1, vec2) of two vectors of one length
Dot(a, b) ==
    IF a = <<>> THEN 0 ELSE Head(a) * Head(b) + Dot(Tail(a), Tail(b))

\* the similarity values: 0.0, 1.0, -1.0 and dot / sqrt(sq1 * sq2)
Similarity(dot, sq1, sq2) == [dot |-> dot, sq1 |-> sq1, sq2 |-> sq2]
ZeroSimilarity == Similarity(0, 1, 1)
OneSimilarity == Similarity(1, 1, 1)

\* max(-1.0, min(1.0, dot / (magnitude1 * magnitude2)))
Clamped(dot, sq1, sq2) ==
    IF dot = 0 THEN ZeroSimilarity
    ELSE IF dot * dot >= sq1 * sq2
         THEN Similarity(IF dot > 0 THEN 1 ELSE -1, 1, 1)
         ELSE Similarity(dot, sq1, sq2)

\* (mutant: no zero-magnitude test; 0 / 0 is nan and the clamp gives 1.0)
CosineSimilarity_NoZeroTest(embedding1, embedding2) ==
    IF \/ ~embedding1.given
       \/ ~embedding2.given
       \/ Len(embedding1.v) = 0
       \/ Len(embedding2.v) = 0
    THEN [exc |-> "none", value |-> ZeroSimilarity]
    ELSE IF Len(embedding1.v) # Len(embedding2.v)
    THEN [exc |-> "none", value |-> ZeroSimilarity]
    ELSE LET magnitude1 == Dot(embedding1.v, embedding1.v)
             magnitude2 == Dot(embedding2.v, embedding2.v)
         IN  IF magnitude1 = 0 \/ magnitude2 = 0
             THEN [exc |-> "none", value |-> OneSimilarity]
             ELSE [exc |-> "none",
                   value |-> Clamped(Dot(embedding1.v, embedding2.v),
                                     magnitude1, magnitude2)]

\* calculate_cosine_similarity; magnitude1 and magnitude2 are the squares of
\* the norms
CosineSimilarity(embedding1, embedding2) ==
    IF \/ ~embedding1.given
       \/ ~embedding2.given
       \/ Len(embedding1.v) = 0
       \/ Len(embedding2.v) = 0
    THEN [exc |-> "none", value |-> ZeroSimilarity]
    ELSE IF Len(embedding1.v) # Len(embedding2.v)
    THEN [exc |-> "none", value |-> ZeroSimilarity]
    ELSE LET magnitude1 == Dot(embedding1.v, embedding1.v)
             magnitude2 == Dot(embedding2.v, embedding2.v)
         IN  IF magnitude1 = 0 \/ magnitude2 = 0
             THEN [exc |-> "none", value |-> ZeroSimilarity]
             ELSE [exc |-> "none",
                   value |-> Clamped(Dot(embedding1.v, embedding2.v),
                                     magnitude1, magnitude2)]

\* the call runs
CosineSimilarityCall ==
    /\ pure_last.op = "calculate_cosine_similarity"
    /\ pure_last.out = <<>>
    /\ pure_last' = [pure_last EXCEPT !.out =
                        CosineSimilarity(pure_last.args.embedding1,
                                         pure_last.args.embedding2)]
    /\ UNCHANGED <<cbVars, embVars, matchVars, explVars>>

InitCosine ==
    /\ CircuitBreakerInit(EmbFailureThreshold, EmbRecoveryTimeout)
    /\ CallersIdle
    /\ EmbIdle
    /\ ExplIdle
    /\ MatchIdle
    /\ \E args \in [embedding1 : Embeddings, embedding2 : Embeddings] :
          pure_last = Pending("calculate_cosine_similarity", args)

NextCosine == CosineSimilarityCall

SpecCosine == InitCosine /\ [][NextCosine]_vars

(***************************************************************************)
(* Properties of the circuit breaker                                       *)
(***************************************************************************)
\* less than recovery_timeout has passed since the last recorded failure
InsideWindow ==
    /\ last_failure_time # None
    /\ now - last_failure_time < recovery_timeout

\* the last recorded failure was the failure_threshold-th (or a later one)
\* of a run of guarded calls that failed with an expected exception with no
\* successful call in between, and less than recovery_timeout has passed
\* since
InsideOpenWindow ==
    /\ streak >= failure_threshold
    /\ InsideWindow

\* a call enters the wrapper in this step
CallArrives == arrivals' = arrivals + 1

\* C1: once failure_threshold consecutive guarded calls have failed with an
\* expected exception, the breaker is OPEN, and every call that arrives less
\* than recovery_timeout after the last recorded failure is rejected (raises
\* ExternalServiceError) without the wrapped function being invoked.
C1_OpenRejectsInsideWindow ==
    [][/\ (consec >= failure_threshold /\ InsideWindow) => state = "OPEN"
       /\ (InsideOpenWindow /\ CallArrives)
          => /\ rejections' = rejections + 1
             /\ invocations' = invocations
             /\ \E c \in Callers : cres'[c] = "rejected"
                                   /\ cpc'[c] = "idle"]_vars

\* the case of C1: the breaker was opened by failure_threshold consecutive
\* failures, a call admitted before that returned and closed it, and a call
\* that arrived inside the window has been let through to the function
C1_AdmittedInsideWindow ==
    /\ InsideOpenWindow
    /\ state = "CLOSED"
    /\ \E c \in Callers : cres[c] = "raised_expected"
    /\ \E c \in Callers : cres[c] = "returned"
    /\ \E c \in Callers : cres[c] = "running" /\ cpc[c] = "inflight"

\* some admitted HALF_OPEN trial call is still in flight
TrialInFlight == \E c \in Callers : cpc[c] = "inflight" /\ trial[c]

\* C2: while the HALF_OPEN trial call is in flight, every other call that
\* arrives at the breaker is rejected without invoking the dependency.
C2_OnlyTrialAdmitted ==
    [][(TrialInFlight /\ CallArrives) =>
          /\ rejections' = rejections + 1
          /\ invocations' = invocations]_vars

\* C3: when the HALF_OPEN trial call completes, a normal return leaves the
\* breaker CLOSED with failure_count 0, and an expected exception leaves it
\* OPEN with last_failure_time refreshed to the current time.
C3_TrialOutcomeDecides ==
    [][\A c \in Callers :
          (cpc[c] = "inflight" /\ trial[c] /\ cpc'[c] = "idle") =>
              /\ cres'[c] = "returned" =>
                    (state' = "CLOSED" /\ failure_count' = 0)
              /\ cres'[c] = "raised_expected" =>
                    (state' = "OPEN" /\ last_failure_time' = now)]_vars

(***************************************************************************)
(* Properties of the embedding service                                     *)
(***************************************************************************)
\* a step in which an embedding call ends; emb_last' is then the record of it
EmbCallStep == emb_last'.op # "none"

\* C4: once a call has produced a text's vector with the model and cached
\* it, and while that entry is in the cache, every later generate_embedding
\* call on an initialised service whose preprocessed text is the same
\* returns that very vector and invokes the model zero times: the call is
\* not turned away, and when its cache read completes (without failing) it
\* returns the entry's vector.
C4_CachedTextServedFromCache ==
    [][\A key \in DOMAIN emb_cache :
          emb_cache[key].expire_seconds = DefaultExpireHours * 3600 =>
          /\ ( /\ emb_last'.op = "single"
               /\ emb_last'.path = "rejected"
               /\ PreprocessText(emb_last'.text) = key )
             => emb_last'.outcome = "returned"
          /\ \A c \in EmbCalls :
               ( /\ ecall[c].pc = "read"
                 /\ ecall'[c].pc # "read"
                 /\ PreprocessText(ecall[c].text) = key
                 /\ ~ecall'[c].read_failed )
               => /\ ecall'[c].pc = "idle"
                  /\ emb_last'.text = ecall[c].text
                  /\ emb_last'.outcome = "returned"
                  /\ emb_last'.ret = emb_origin[key]
                  /\ emb_last'.model_calls = 0]_vars

\* C10: when every model invocation of a generate_embedding call failed, the
\* call has returned (not raised) the heuristic fallback vector of the text,
\* of the embedding dimension, and has written it to the cache under the
\* text's key with a TTL of 3600 seconds.
C10_FailedModelFallsBack ==
    ( /\ emb_last.op = "single"
      /\ emb_last.model_calls >= 1
      /\ \A k \in 1..emb_last.model_calls : emb_last.env[k] # "ok" )
    => /\ emb_last.outcome = "returned"
       /\ Len(emb_last.ret) = embedding_dimension
       /\ emb_last.ret = EmbeddingFallback(PreprocessText(emb_last.text),
                                           embedding_dimension)
       /\ emb_last.write = [key |-> PreprocessText(emb_last.text),
                            vec |-> emb_last.ret,
                            expire_seconds |-> 3600]
       /\ emb_last.stored =>
             /\ PreprocessText(emb_last.text) \in DOMAIN emb_cache
             /\ emb_cache[PreprocessText(emb_last.text)] =
                    [vec |-> emb_last.ret, expire_seconds |-> 3600]

\* a call on "Work" whose three model invocations all failed has returned
\* (4/1000, 1/500, 4/26, 1/7, 0, ...) and the cache holds it for an hour
C10_Witness ==
    /\ emb_last.op = "single"
    /\ emb_last.model_calls = EmbMaxRetries + 1
    /\ \A k \in 1..(EmbMaxRetries + 1) : emb_last.env[k] = "other"
    /\ emb_last.outcome = "returned"
    /\ emb_last.text = <<" ", "W", "o", "r", "k", " ">>
    /\ SubSeq(emb_last.ret, 1, 5) = <<364, 182, 14000, 13000, 0>>
    /\ emb_last.stored
    /\ <<"W", "o", "r", "k">> \in DOMAIN emb_cache
    /\ emb_cache[<<"W", "o", "r", "k">>] =
           [vec |-> emb_last.ret, expire_seconds |-> 3600]

\* C9: batch_generate_embeddings returns one vector per text, in the order
\* of the texts: the zero vector for an empty text, the cached vector for a
\* text whose cache read gave one (the vector the cache held at that read),
\* the model's output for that text otherwise (where the batched model call
\* returns).
C9_BatchKeepsOrder ==
    [][/\ \A c \in EmbCalls :
            (ecall[c].pc = "bread" /\ ecall'[c] # ecall[c])
            => LET k == ecall[c].k
                   key == ecall[c].processed_texts[k]
                   looked == IF ecall'[c].pc = "idle" THEN emb_last'.lookup
                             ELSE ecall'[c].lookup
               IN  looked[k] # <<>> =>
                       /\ key \in DOMAIN emb_cache
                       /\ looked[k] = emb_cache[key].vec
       /\ (EmbCallStep /\ emb_last'.op = "batch"
           /\ emb_last'.outcome = "returned")
          => /\ Len(emb_last'.ret) = Len(emb_last'.text)
             /\ \A i \in 1..Len(emb_last'.text) :
                  IF PreprocessText(emb_last'.text[i]) = <<>>
                  THEN emb_last'.ret[i] = ZeroVector(embedding_dimension)
                  ELSE IF emb_last'.lookup[i] # <<>>
                  THEN emb_last'.ret[i] = emb_last'.lookup[i]
                  ELSE emb_last'.env = <<"ok">> =>
                           emb_last'.ret[i] =
                               Encode(PreprocessText(emb_last'.text[i]),
                                      emb_last'.variant)]_vars

\* a batch of two has returned, in this order, a cached vector that is not
\* what the model gives and the model's output for a text that was not
\* cached
C9_Witness ==
    /\ emb_last.op = "batch"
    /\ emb_last.text = << <<"W", "o", "r", "k">>, <<"a", "\n", "b">> >>
    /\ emb_last.env = <<"ok">>
    /\ emb_last.ret[1] = EmbeddingFallback(<<"W", "o", "r", "k">>,
                                           embedding_dimension)
    /\ emb_last.ret[2] = Encode(<<"a", " ", "b">>, emb_last.variant)
    /\ emb_last.ret[1] # emb_last.ret[2]

(***************************************************************************)
(* Properties of match_resumes_to_job and _store_match_results.            *)
(***************************************************************************)
\* the tasks of a run that returned a match at or above the threshold
ComputedPassing(rn) ==
    {i \in DOMAIN rn.result :
        /\ rn.result[i].kind = "match"
        /\ rn.result[i].match.overall_score >= rn.request.min_score_threshold}

Occurrences(matches, m) ==
    Cardinality({j \in DOMAIN matches : matches[j] = m})

ComputedOccurrences(rn, m) ==
    Cardinality({i \in ComputedPassing(rn) : rn.result[i].match = m})

FinishedComputedRun(rn) == rn.pc = "done" /\ rn.path = "computed"

\* C5: when _store_match_results persists a result for a pair that has a
\* row already, and no other run is storing at the same time, the pair has
\* exactly one row afterwards and its score, confidence, explanation and
\* skill lists are those of the result just persisted.
C5_SecondResultStored ==
    [][\A r \in Runs :
          ( /\ run[r].pc = "store_put"
            /\ run'[r].pc # "store_put"
            /\ run'[r].put = "updated"
            /\ ~run'[r].overlap )
          => LET match == run[r].matches[run[r].k]
                 rows == RowsOf(db', match.job_id, match.resume_id)
             IN  /\ Cardinality(rows) = 1
                 /\ \A i \in rows :
                      /\ db'[i].match_score = match.overall_score
                      /\ db'[i].confidence_score * 10 = match.confidence
                      /\ db'[i].explanation = match.explanation
                      /\ db'[i].key_strengths = match.matched_skills
                      /\ db'[i].missing_skills = match.missing_skills
                      /\ db'[i].skill_matches.additional
                            = match.additional_skills]_vars

\* C6: a run that missed the cache returns the computed matches at or
\* above the threshold, each as often as it was computed, in non-increasing
\* order of overall_score, and only the highest max_results of them when
\* max_results is set.
C6_MissReturnsFilteredSortedLimited ==
    \A r \in Runs :
       FinishedComputedRun(run[r])
       => LET rn == run[r]
              n == Cardinality(ComputedPassing(rn))
              limit == rn.request.max_results
          IN  /\ Len(rn.ret) = IF limit = None THEN n ELSE Min(limit, n)
              /\ \A j \in 1..(Len(rn.ret) - 1) :
                    rn.ret[j].overall_score >= rn.ret[j + 1].overall_score
              /\ \A j \in DOMAIN rn.ret :
                    Occurrences(rn.ret, rn.ret[j])
                        <= ComputedOccurrences(rn, rn.ret[j])
              /\ \A i \in ComputedPassing(rn) :
                    \/ Occurrences(rn.ret, rn.result[i].match)
                          = ComputedOccurrences(rn, rn.result[i].match)
                    \/ /\ rn.ret # <<>>
                       /\ rn.result[i].match.overall_score
                             <= rn.ret[Len(rn.ret)].overall_score

C6_Witness ==
    \E r \in Runs :
       /\ FinishedComputedRun(run[r])
       /\ run[r].request.resume_ids = <<4, 1, 5, 3, 2>>
       /\ run[r].request.min_score_threshold = 7000
       /\ run[r].request.max_results = None
       /\ [i \in DOMAIN run[r].result |-> run[r].result[i].match.overall_score]
             = <<4000, 9000, 1000, 6500, 7200>>
       /\ [j \in DOMAIN run[r].ret |-> run[r].ret[j].overall_score]
             = <<9000, 7200>>

\* C7: when some tasks of a run raised or returned None, the run still
\* finishes and returns a match for every other task whose score passes
\* the threshold (the highest max_results of them when that is set); the
\* resumes of the failed tasks only are left out.
C7_FailedPairsOnlyExcluded ==
    \A r \in Runs :
       ( /\ FinishedComputedRun(run[r])
         /\ \E i \in DOMAIN run[r].result :
               run[r].result[i].kind \in {"none", "raised"} )
       => LET rn == run[r]
              passing == ComputedPassing(rn)
          IN  /\ rn.request.max_results = None
                 => \A i \in passing :
                       \E j \in DOMAIN rn.ret :
                          /\ rn.ret[j] = rn.result[i].match
                          /\ rn.ret[j].resume_id = rn.resumes[i]
              /\ rn.request.max_results # None
                 => Len(rn.ret) = Min(rn.request.max_results,
                                      Cardinality(passing))
              /\ \A j \in DOMAIN rn.ret :
                    rn.ret[j].resume_id \in {rn.resumes[i] : i \in passing}

C7_Witness ==
    \E r \in Runs :
       /\ FinishedComputedRun(run[r])
       /\ run[r].request.resume_ids = <<6, 1, 7, 2, 9>>
       /\ run[r].request.min_score_threshold = 7000
       /\ run[r].request.max_results = None
       /\ run[r].result[1].kind = "none"
       /\ run[r].result[3].kind = "raised"
       /\ [j \in DOMAIN run[r].ret |-> run[r].ret[j].resume_id] = <<1, 2, 9>>

\* C8: in every state of a run, at most 10 calculate_comprehensive_match
\* computations hold the semaphore.
C8_AtMostTenInFlight ==
    \A r \in Runs : Cardinality(InFlight(run[r])) <= MaxConcurrentMatches

C8_Witness ==
    \E r \in Runs :
       /\ Len(run[r].task) > MaxConcurrentMatches
       /\ Cardinality(InFlight(run[r])) = MaxConcurrentMatches
       /\ \E i \in DOMAIN run[r].task : run[r].task[i] = "pending"

(***************************************************************************)
(* Further properties of generate_embedding.                               *)
(***************************************************************************)
\* C11: a generate_embedding call that arrives while the embedding breaker
\* is OPEN (inside the recovery window) returns the fallback vector of its
\* text and raises nothing.
C11_OpenBreakerReturnsFallback ==
    (emb_last.op = "single" /\ emb_last.path = "rejected")
    => /\ emb_last.outcome = "returned"
       /\ emb_last.ret = EmbeddingFallback(PreprocessText(emb_last.text),
                                           embedding_dimension)

(***************************************************************************)
(* Properties of generate_explanation.                                     *)
(***************************************************************************)
\* the call met no Anthropic client, or every LLM attempt it made failed
LlmUnavailable(call) ==
    /\ call.env # <<>>
    /\ \/ ~call.env[1]
       \/ /\ Len(call.env[2]) = ExplMaxRetries + 1
          /\ \A k \in DOMAIN call.env[2] : call.env[2][k] \in LlmFailures

\* C12: every generate_explanation call returns a non-empty explanation and
\* raises nothing, whatever the LLM and the caches do; without a client, or
\* when all LLM attempts failed, it returns the template explanation of its
\* match score and skill lists.
C12_ExplanationAlwaysReturned ==
    expl_last.op = "generate_explanation"
    => /\ expl_last.outcome = "returned"
       /\ expl_last.exc = "none"
       /\ expl_last.ret # <<>>
       /\ LlmUnavailable(expl_last)
          => expl_last.ret = TemplateExplanationFallback(
                 expl_last.input.match_score,
                 expl_last.input.skill_analysis.matched_skills,
                 expl_last.input.skill_analysis.missing_skills)

C12_Witness ==
    /\ expl_last.op = "generate_explanation"
    /\ expl_last.input.match_score = 8512
    /\ expl_last.env = <<TRUE, <<"rate_limit", "rate_limit", "rate_limit">>>>
    /\ expl_last.llm_calls = 3
    /\ expl_last.outcome = "returned"
    /\ expl_last.ret = <<"template", "Excellent match", 851,
                         <<"python", "sql", "aws">>, <<"go">>,
                         "Highly recommended">>

(***************************************************************************)
(* Properties of retry_with_backoff.                                       *)
(***************************************************************************)
\* C13: retry_with_backoff with max_retries = R invokes func at most R + 1
\* times; when it returns, the invocation that returned is the first one
\* that did not raise and the last one made; when invocations raise
\* configured exceptions until one returns, that one's result is returned;
\* when all R + 1 raise configured exceptions, the exception of the last
\* invocation is raised.
C13_RetryBounded ==
    (pure_last.op = "retry_with_backoff" /\ pure_last.out # <<>>)
    => LET excs == pure_last.args.excs
           R == pure_last.args.max_retries
           exceptions == pure_last.args.exceptions
           out == pure_last.out
       IN  /\ out.calls \in 1..(R + 1)
           /\ out.exc = "none"
              => /\ excs[out.calls] = "none"
                 /\ \A k \in 1..(out.calls - 1) : excs[k] # "none"
           /\ \A k \in 1..(R + 1) :
                 ( /\ excs[k] = "none"
                   /\ \A j \in 1..(k - 1) : excs[j] \in exceptions )
                 => (out.exc = "none" /\ out.calls = k)
           /\ (\A k \in 1..(R + 1) : excs[k] \in exceptions)
              => (out.calls = R + 1 /\ out.exc = excs[R + 1])

C13_Witness ==
    /\ pure_last.op = "retry_with_backoff"
    /\ pure_last.args.max_retries = 2
    /\ pure_last.args.excs = <<"RuntimeError", "RuntimeError", "OSError">>
    /\ pure_last.args.exceptions = {"RuntimeError", "OSError"}
    /\ pure_last.out # <<>>
    /\ pure_last.out = [calls |-> 3, exc |-> "OSError"]

(***************************************************************************)
(* Properties of compare_skills.                                           *)
(***************************************************************************)
\* C14: with J and R the normalized job and resume skill sets,
\* compare_skills gives matched = J \cap R, missing = J \ R and
\* additional = R \ J (so matched and missing partition J), and
\* match_percentage = |matched| / |J| * 100 to two decimals, 0 for empty J.
C14_SkillComparison ==
    (pure_last.op = "compare_skills" /\ pure_last.out # <<>>)
    => LET J == {NormalizeSkill(pure_last.args.job_skills[i]) :
                    i \in DOMAIN pure_last.args.job_skills}
           R == {NormalizeSkill(pure_last.args.resume_skills[i]) :
                    i \in DOMAIN pure_last.args.resume_skills}
           out == pure_last.out
           n == Cardinality(J)
           m == Cardinality(out.matched_skills)
       IN  /\ out.matched_skills = J \cap R
           /\ out.missing_skills = J \ R
           /\ out.additional_skills = R \ J
           /\ out.matched_skills \cup out.missing_skills = J
           /\ out.matched_skills \cap out.missing_skills = {}
           /\ n = 0 => out.match_percentage = 0
           /\ n > 0 => /\ 2 * (n * out.match_percentage - 10000 * m) <= n
                       /\ 2 * (10000 * m - n * out.match_percentage) <= n

C14_Witness ==
    /\ pure_last.op = "compare_skills"
    /\ pure_last.args.job_skills = <<"Python", "sql", "aws">>
    /\ pure_last.args.resume_skills = <<"py", "aws", "docker">>
    /\ pure_last.out # <<>>
    /\ pure_last.out.matched_skills = {"python", "aws"}
    /\ pure_last.out.missing_skills = {"sql"}
    /\ pure_last.out.additional_skills = {"docker"}
    /\ pure_last.out.match_percentage = 6667

(***************************************************************************)
(* Properties of the overall score.                                        *)
(***************************************************************************)
\* the ComprehensiveMatch records the tasks of the runs have produced
ProducedMatches ==
    UNION {{run[r].result[i].match :
               i \in {k \in DOMAIN run[r].result :
                          run[r].result[k].kind = "match"}} :
           r \in Runs}

\* C15: every record calculate_comprehensive_match produces has
\* overall_score = 0.7 * similarity_score + 0.3 * skill_match_percentage of
\* the same record, rounded to 2 decimals (at most half a hundredth away),
\* and similarity 80.0 with skill match 50.0 gives exactly 71.0.
C15_OverallScoreWeighted ==
    \A match \in ProducedMatches :
       LET exact10 == SimilarityWeight * match.similarity_score
                      + SkillWeight * match.skill_match_percentage
       IN  /\ 10 * match.overall_score - exact10 <= 5
           /\ exact10 - 10 * match.overall_score <= 5
           /\ (match.similarity_score = 8000
               /\ match.skill_match_percentage = 5000)
              => match.overall_score = 7100

C15_Witness ==
    \E match \in ProducedMatches :
       /\ match.resume_id = 8
       /\ match.similarity_score = 8000
       /\ match.skill_match_percentage = 5000
       /\ match.overall_score = 7100

(***************************************************************************)
(* Properties of calculate_cosine_similarity.                              *)
(***************************************************************************)
\* a vector all of whose components are 0
ZeroMagnitude(e) == \A i \in DOMAIN e.v : e.v[i] = 0

\* C16: calculate_cosine_similarity returns 0.0 and raises nothing when
\* either vector is None or empty, when the two have different lengths, or
\* when either has zero magnitude.
C16_DegenerateVectorsGiveZero ==
    (/\ pure_last.op = "calculate_cosine_similarity"
     /\ pure_last.out # <<>>
     /\ LET e1 == pure_last.args.embedding1
            e2 == pure_last.args.embedding2
        IN  \/ ~e1.given \/ ~e2.given
            \/ e1.v = <<>> \/ e2.v = <<>>
            \/ Len(e1.v) # Len(e2.v)
            \/ ZeroMagnitude(e1) \/ ZeroMagnitude(e2))
    => /\ pure_last.out.exc = "none"
       /\ pure_last.out.value = ZeroSimilarity

C16_Witness ==
    /\ pure_last.op = "calculate_cosine_similarity"
    /\ pure_last.args.embedding1 = Vector(<<0, 0>>)
    /\ pure_last.args.embedding2 = Vector(<<2, -1>>)
    /\ pure_last.out # <<>>
    /\ pure_last.out = [exc |-> "none", value |-> ZeroSimilarity]

(***************************************************************************)
(* Properties of the cache write, the store and the candidate set.         *)
(***************************************************************************)
\* a run whose gather is over and whose results were computed, not cached
PastGather(rn) ==
    /\ rn.path = "computed"
    /\ rn.pc \in {"store_get", "store_put", "done"}

\* the tasks of a run that returned a ComprehensiveMatch
ComputedPairs(rn) == {i \in DOMAIN rn.result : rn.result[i].kind = "match"}

\* C17: on a cache miss the value written to the match-results cache has one
\* record for every pair that was computed successfully, whatever the
\* request's min_score_threshold and max_results are.
C17_CacheHoldsFullBatch ==
    \A r \in Runs :
       LET key == MatchCacheKey(run[r].request.job_id, run[r].resumes)
       IN  (PastGather(run[r]) /\ key \in DOMAIN mcache)
           => /\ Len(mcache[key]) = Cardinality(ComputedPairs(run[r]))
              /\ \A i \in ComputedPairs(run[r]) :
                    \E j \in DOMAIN mcache[key] :
                       mcache[key][j] = CacheData(<<run[r].result[i].match>>)[1]

\* C18: when the store fails while _store_match_results is upserting the
\* matches of a run, the run ends with an exception raised to its caller;
\* it does not return its matches as if they were stored.
C18_StoreFailurePropagates ==
    \A r \in Runs :
       (run[r].pc = "done" /\ run[r].put = "failed")
       => run[r].exc # "none"

\* the matches the runs hold for a pair
MatchesFor(job_id, resume_id) ==
    UNION {{run[q].matches[k] :
               k \in {n \in DOMAIN run[q].matches :
                         /\ run[q].matches[n].job_id = job_id
                         /\ run[q].matches[n].resume_id = resume_id}} :
           q \in Runs}

\* two runs were inside _store_match_results at the same time with a match
\* for one pair each, and both are over with no failure of the store itself
ConcurrentWritersDone ==
    /\ \A r \in Runs :
          /\ FinishedComputedRun(run[r])
          /\ run[r].overlap
          /\ run[r].put # "failed"
    /\ \E j \in DOMAIN run[1].matches, k \in DOMAIN run[2].matches :
          /\ run[1].matches[j].job_id = run[2].matches[k].job_id
          /\ run[1].matches[j].resume_id = run[2].matches[k].resume_id

\* C19: when two concurrent runs both persist a result for one pair, both
\* end with every match of theirs stored: each of their pairs has exactly
\* one row, and the row holds what one of the runs computed for the pair.
C19_ConcurrentWritersConverge ==
    ConcurrentWritersDone
    => \A r \in Runs : \A j \in DOMAIN run[r].matches :
          LET match == run[r].matches[j]
              rows == RowsOf(db, match.job_id, match.resume_id)
          IN  /\ Cardinality(rows) = 1
              /\ \A i \in rows :
                    \E m \in MatchesFor(match.job_id, match.resume_id) :
                       db[i] = MatchData(m)

\* C20: when the request names a resume more than once the candidates are
\* deduplicated: calculate_comprehensive_match runs at most once per
\* distinct resume, and the returned list has at most one match per
\* resume_id.
C20_CandidatesDeduplicated ==
    \A r \in Runs :
       /\ \A i, j \in DOMAIN run[r].task :
             (/\ i # j
              /\ run[r].task[i] # "pending"
              /\ run[r].task[j] # "pending")
             => run[r].resumes[i] # run[r].resumes[j]
       /\ \A j, k \in DOMAIN run[r].ret :
             j # k => run[r].ret[j].resume_id # run[r].ret[k].resume_id

(***************************************************************************)
(* Properties of generate_batch_explanations.                              *)
(***************************************************************************)
\* C21: generate_batch_explanations always ends with a response and no
\* exception (a failing request does not abort the batch); in the response
\* successful_count + failed_count is the number of requests and
\* explanations has successful_count elements; and never more than
\* max_concurrent generations are in flight.
C21_BatchExplanations ==
    /\ xbatch.exc = "none"
    /\ xbatch.pc = "gather" => Cardinality(XInFlight) <= xbatch.max_concurrent
    /\ xbatch.peak <= xbatch.max_concurrent
    /\ xbatch.pc = "done"
       => /\ Len(xbatch.response) = 1
          /\ xbatch.response[1].successful_count
                + xbatch.response[1].failed_count = Len(xbatch.explanations)
          /\ Len(xbatch.response[1].explanations)
                = xbatch.response[1].successful_count

C21_Witness ==
    /\ xbatch.pc = "done"
    /\ Len(xbatch.explanations) = MaxExplBatch
    /\ xbatch.max_concurrent = DefaultMaxConcurrent
    /\ xbatch.peak = DefaultMaxConcurrent
    /\ xbatch.response[1].successful_count
          = MaxExplBatch - (MaxExplBatch \div 3)
    /\ xbatch.response[1].failed_count = (MaxExplBatch \div 3)
    /\ Len(xbatch.response[1].explanations)
          = xbatch.response[1].successful_count
    /\ DOMAIN expl_cache # {}

(***************************************************************************)
(* Properties of the cache hit.                                            *)
(***************************************************************************)
\* the cached records at or above the threshold of the run's request
CachedPassing(rn) ==
    {i \in DOMAIN rn.cached_results :
        rn.cached_results[i].overall_score >= rn.request.min_score_threshold}

\* C22: a run that hits the match-results cache returns the cached records
\* at or above its own request's min_score_threshold, in non-increasing
\* order of overall_score, cut to its own max_results; it creates no task
\* (no pair is computed), and it reaches neither the cache write nor the
\* store.
C22_HitReturnsCachedFilteredSortedLimited ==
    \A r \in Runs :
       run[r].path = "cache"
       => LET rn == run[r]
              n == Cardinality(CachedPassing(rn))
              limit == rn.request.max_results
              AsMatch(i) == FromCache(<<rn.cached_results[i]>>, 0)[1]
          IN  /\ rn.pc = "done"
              /\ rn.task = <<>> /\ rn.result = <<>>
              /\ rn.matches = <<>> /\ rn.put = "none"
              /\ Len(rn.ret) = IF limit = None THEN n ELSE Min(limit, n)
              /\ \A j \in 1..(Len(rn.ret) - 1) :
                    rn.ret[j].overall_score >= rn.ret[j + 1].overall_score
              /\ \A j \in DOMAIN rn.ret :
                    Occurrences(rn.ret, rn.ret[j])
                       <= Cardinality({i \in CachedPassing(rn) :
                                          AsMatch(i) = rn.ret[j]})
              /\ \A i \in CachedPassing(rn) :
                    \/ \E j \in DOMAIN rn.ret : rn.ret[j] = AsMatch(i)
                    \/ /\ rn.ret # <<>>
                       /\ rn.cached_results[i].overall_score
                             <= rn.ret[Len(rn.ret)].overall_score

C22_Witness ==
    \E r \in Runs :
       /\ run[r].path = "cache"
       /\ run[r].request.resume_ids = <<2, 1>>
       /\ run[r].request.min_score_threshold = 8000
       /\ [i \in DOMAIN run[r].cached_results |->
              run[r].cached_results[i].overall_score] = <<9000, 7200>>
       /\ [j \in DOMAIN run[r].ret |-> run[r].ret[j].overall_score] = <<9000>>
       /\ run[r].ret[1].resume_id = 1

(***************************************************************************)
(* Properties of the failures of the guarded dependencies.                 *)
(***************************************************************************)
\* the generate_embedding call that led to this state invoked the model and
\* the invocation that ended its retry loop failed
ModelInvocationFailed ==
    /\ emb_last.op = "single"
    /\ emb_last.model_calls > 0
    /\ emb_last.env[emb_last.model_calls] # "ok"

\* C23: a generate_embedding call whose model invocation failed is recorded
\* as a failure by embedding_circuit_breaker (failure_count is positive and
\* last_failure_time is the time of the call), so that failure_threshold
\* such calls in a row open the breaker.
C23_FailedInvocationRecorded ==
    ModelInvocationFailed
    => /\ failure_count >= 1
       /\ last_failure_time = now

\* C27: when the first model invocation of a generate_embedding call fails
\* with a timeout or a rate limit, the model is invoked again (up to two
\* more times) before the fallback vector is used.
C27_TransientFailureRetried ==
    (/\ emb_last.op = "single"
     /\ emb_last.model_calls > 0
     /\ emb_last.env[1] \in {"timeout", "rate_limit"})
    => emb_last.model_calls >= 2

(***************************************************************************)
(* Properties of the embeddings of calculate_comprehensive_match.          *)
(***************************************************************************)
\* positions of a step in the steps of the call that ended
StepsOf(kind, entity) ==
    {n \in DOMAIN pair.call.events : pair.call.events[n] = <<kind, entity>>}

\* what C24 asks of the call that ended for one entity, whose embedding was
\* `before` when the call began
EmbeddingEnsured(entity, before) ==
    /\ StepsOf("generate", entity) # {} => before \in {"none", "empty"}
    /\ \A u \in StepsOf("update_embedding", entity) :
          /\ \E g \in StepsOf("generate", entity) : g < u
          /\ \E g \in StepsOf("get", entity) :
                /\ u < g
                /\ \A c \in StepsOf("similarity", "pair") : g < c
    /\ \A g \in StepsOf("generate", entity) :
          /\ (\E k \in DOMAIN pair.call.generated :
                 pair.call.generated[k] = <<entity, "returned">>)
             => \E u \in StepsOf("update_embedding", entity) : g < u
          /\ \E r \in StepsOf("get", entity) :
                /\ g < r
                /\ \A c \in StepsOf("similarity", "pair") : r < c

\* C24: calculate_comprehensive_match generates an embedding for the job
\* (the resume) only when the stored one is absent or empty; a vector it
\* gets is then handed to update_embedding and the entity is read again
\* before the similarity is computed; when both carry an embedding nothing
\* is generated and nothing written; and when an embedding is still absent
\* or empty afterwards no match is produced.
C24_EmbeddingsEnsured ==
    pair.call.op = "calculate_comprehensive_match"
    => LET before == pair.call.before[1]
       IN  /\ EmbeddingEnsured("job", before.job_embedding)
           /\ EmbeddingEnsured("resume", before.resume_embedding)
           /\ (before.job_embedding = "vec" /\ before.resume_embedding = "vec")
              => /\ StepsOf("generate", "job") = {}
                 /\ StepsOf("generate", "resume") = {}
                 /\ StepsOf("update_embedding", "job") = {}
                 /\ StepsOf("update_embedding", "resume") = {}
           /\ (\/ ~pair.call.read[1].found
               \/ ~pair.call.read[2].found
               \/ pair.call.read[1].embedding \in {"none", "empty"}
               \/ pair.call.read[2].embedding \in {"none", "empty"})
              => pair.call.result[1].kind # "match"

\* the case of C24: the job and the resume both carried a vector when the
\* call began, and the call has generated an embedding for the resume and
\* handed it to update_embedding, for the object its session had loaded
\* earlier carried none
C24_GeneratedOverStored ==
    /\ pair.call.op = "calculate_comprehensive_match"
    /\ pair.call.before[1].job_embedding = "vec"
    /\ pair.call.before[1].resume_embedding = "vec"
    /\ StepsOf("generate", "resume") # {}
    /\ StepsOf("update_embedding", "resume") # {}
    /\ pair.call.generated = << <<"resume", "returned">> >>
    /\ pair.call.result[1].kind = "match"

(***************************************************************************)
(* Properties of a failed batch.                                           *)
(***************************************************************************)
\* C25: when the batched model call of batch_generate_embeddings fails, the
\* call returns a list as long as its input with no exception; each
\* position that missed the cache holds the zero vector, each position
\* served from the cache holds the vector its read gave and each empty text
\* the zero vector.
C25_FailedBatchFillsZero ==
    (emb_last.op = "batch" /\ emb_last.env = <<"other">>)
    => /\ emb_last.outcome = "returned"
       /\ emb_last.exc = "none"
       /\ Len(emb_last.ret) = Len(emb_last.text)
       /\ \A i \in 1..Len(emb_last.text) :
            emb_last.ret[i] =
                IF PreprocessText(emb_last.text[i]) # <<>>
                   /\ emb_last.lookup[i] # <<>>
                THEN emb_last.lookup[i]
                ELSE ZeroVector(embedding_dimension)

\* a batch whose model call failed has returned the cached vector of its
\* first text and the zero vector for its second, which was not cached
C25_Witness ==
    /\ emb_last.op = "batch"
    /\ emb_last.text = << <<"W", "o", "r", "k">>, <<"a", "\n", "b">> >>
    /\ emb_last.env = <<"other">>
    /\ emb_last.outcome = "returned"
    /\ emb_last.ret = <<EmbeddingFallback(<<"W", "o", "r", "k">>,
                                          embedding_dimension),
                        ZeroVector(embedding_dimension)>>

(***************************************************************************)
(* Properties of the retries of the LLM call.                              *)
(***************************************************************************)
\* C26: when the LLM call of a generate_explanation call fails with an
\* authentication / API-key error it is not retried: the provider is
\* invoked once and the template explanation is used.
C26_AuthFailureNotRetried ==
    (/\ expl_last.op = "generate_explanation"
     /\ expl_last.llm_calls >= 1
     /\ expl_last.env[2][1] = "auth")
    => /\ expl_last.llm_calls = 1
       /\ expl_last.path = "template"

(***************************************************************************)
(* Properties of the breaker's state changes.                              *)
(***************************************************************************)
StateEdges == {<<"CLOSED", "OPEN">>, <<"OPEN", "HALF_OPEN">>,
               <<"HALF_OPEN", "CLOSED">>, <<"HALF_OPEN", "OPEN">>}

\* C28: under every interleaving of the guarded calls the breaker's state
\* changes only from CLOSED to OPEN, from OPEN to HALF_OPEN and from
\* HALF_OPEN to CLOSED or OPEN; an OPEN breaker is never made CLOSED by a
\* call that was admitted before it opened.
C28_StateChangesAlongEdges ==
    [][state' # state => <<state, state'>> \in StateEdges]_vars

\* C29: when the HALF_OPEN trial call is over, whatever its outcome (a
\* return, an expected exception or any other exception), the breaker is
\* CLOSED or OPEN.
C29_TrialLeavesHalfOpen ==
    [][\A c \in Callers :
          (cpc[c] = "inflight" /\ trial[c] /\ cpc'[c] = "idle")
          => state' \in {"CLOSED", "OPEN"}]_vars

(***************************************************************************)
(* Properties of the reuse of the match-results cache.                     *)
(***************************************************************************)
\* C30: once a run that missed the cache has written its entry, a later
\* call for the same job and the same resumes, in any order, that finds the
\* entry still there (its TTL has not run out) and whose cache read works
\* is served from the cache and creates no task, also when the entry holds
\* no record because nothing passed the first run's threshold.
C30_FollowingCallServedFromCache ==
    [][\A r \in Runs :
          (/\ run[r].pc = "idle"
           /\ run'[r].pc # "idle"
           /\ run'[r].resumes # <<>>
           /\ run'[r].read_ok
           /\ MatchCacheKey(run'[r].request.job_id, run'[r].resumes)
                 \in DOMAIN mcache)
          => /\ run'[r].path = "cache"
             /\ run'[r].task = <<>>]_vars

====
